---------------------------- MODULE Spec2Model ----------------------------
(***************************************************************************)
(* Model of the decision core of the news-driven trading pipeline:         *)
(*   - SignalManager.generate_signals and its conservative filter, and     *)
(*     SignalManager.save_signals with its log directory                   *)
(*     (src/src/pipeline/signal_manager.py),                               *)
(*   - PositionTracker.update_positions and its snapshot file (written by  *)
(*     save_positions, read by load_positions at construction), and        *)
(*     PositionTracker.get_actionable_changes                              *)
(*     (src/src/pipeline/position_tracker.py),                             *)
(*   - Backtester.process_signal, Backtester.finalize and the replay of a  *)
(*     day's signal files by run_daily_backtest                            *)
(*     (src/src/analysis/backtester.py).                                   *)
(*                                                                         *)
(* Confidence scores are floats in [0,1] in the code; here they are        *)
(* integer hundredths (0.70 is 70), compared exactly.  The code's tests    *)
(* c < 0.7, c < 0.8 and c < p - 0.1 on the doubles nearest to such         *)
(* decimals give these exact answers except where c is the decimal p-0.10  *)
(* (the doubles need not be exactly 0.1 apart: 0.80 -> 0.70 counts as a    *)
(* drop, 0.85 -> 0.75 does not); the confidence sets below hold no pair    *)
(* on which the two disagree.  The qualitative text fields of a signal     *)
(* (sentiment, reasoning, key_points, ...) are copied through by the code  *)
(* without being read and are left out.                                    *)
(***************************************************************************)
EXTENDS Integers, Sequences, FiniteSets, TLC

VARIABLES
    \* ---- SignalManager.generate_signals: one call
    analysis_result,    \* argument: the list analysis_result.ticker_analyses
    mode,               \* argument: "pre_market" or "realtime"
    previous_signals,   \* argument: None or a map ticker -> previous signal
    current_signals,    \* self.current_signals, also the value returned
    sm_pc,              \* "ready" before the call, "returned" after it
    \* ---- SignalManager.save_signals
    signal_log,         \* the files of signals_dir: map entry name -> content
    log_clock,          \* datetime.now(timezone.utc), in ticks
    saved_path,         \* value returned by the latest save_signals call
    \* ---- PositionTracker
    positions,          \* self.positions: map ticker -> Position
    positions_file,     \* content of positions.json (NoFile when missing)
    signals,            \* argument of the latest update_positions call
    changes,            \* value returned by the latest update_positions call
    clock,              \* datetime.now(timezone.utc), in whole days
    last_action,        \* history: action of the latest signal per ticker
    run_length,         \* history: how many of the latest signals of a ticker,
                        \* counted backwards, carried that same action
    pt_call,            \* latest PositionTracker call made on a real disk:
                        \* "none", "__init__" or "update_positions"
    pt_outcome,         \* "returned" or "raised": how that call ended
    \* ---- PositionTracker.get_actionable_changes: one call
    ac_changes,         \* argument: a map ticker -> change dict
    actionable,         \* value returned
    ac_pc,              \* "ready" before the call, "returned" after it
    \* ---- Backtester
    base_investment,    \* self.base_investment, in dollars
    commission,         \* self.commission, in percent
    portfolio,          \* self.portfolio: map ticker -> open lot
    trades,             \* self.trades: the list of Trade
    total_invested,     \* self.total_invested, in cents
    total_proceeds,     \* self.total_proceeds, in cents
    bt_call,            \* ticker and action of the latest process_signal call
    bt_returned,        \* value returned by the latest process_signal call
    bt_pnl,             \* realized P&L computed (and logged) by that call
    bt_outcome,         \* "returned" or "raised": how the latest call ended
    closing_prices,     \* argument of finalize
    bt_result,          \* value returned by finalize
    bt_pc,              \* "running" until finalize is called, then "finalized"
    \* ---- run_daily_backtest: one call
    replay_day,         \* the day's signal files in name order, each the list
                        \* of its signals in the order of signals.items()
    current_prices,     \* argument: map ticker -> closing price
    replay_at,          \* how many signals of the day the loops have taken
    replay_pc,          \* "running", then "returned" or "raised"
    \* ---- run_daily_backtest in float arithmetic: one call
    f_day,              \* the day's signals in the order the loops take them
    f_closing,          \* argument current_prices: map ticker -> float
    f_at,               \* how many signals of the day the loops have taken
    f_portfolio,        \* backtester.portfolio, amounts as floats
    f_trades,           \* backtester.trades, amounts as floats
    f_total_invested,   \* backtester.total_invested, a float
    f_total_proceeds,   \* backtester.total_proceeds, a float
    f_result,           \* value returned by finalize
    f_pc,               \* "running", then "returned"
    \* ---- TradingPipeline: the latest cycle
    cycle_mode,         \* "none", "pre_market" or "realtime"
    cycle_news,         \* whether the news collector returned articles
    cycle_analysis,     \* analysis_result.ticker_analyses of the LLM
    cycle_events,       \* the writes and notifier calls of the cycle, in order
    cycle_count,        \* how many cycles have run
    \* ---- TradingScheduler
    et_now,             \* the clock when the loop starts its next pass
    pre_market_done_today,
    post_market_done_today,
    last_realtime_run,  \* None or the time kept by run_realtime_analysis
    market_holiday_notified_today,
    market_open_notified_today,
    pre_calls,          \* history: the pre-market callbacks of the latest date
    post_calls,         \* history: the post-market callbacks of the latest date
    rt_call,            \* history: start and outcome of the latest realtime
                        \* callback
    rt_returned,        \* history: start of the latest realtime callback
                        \* that returned
    failures            \* history: how many callbacks have raised

smVars == <<analysis_result, mode, previous_signals, current_signals, sm_pc>>
ptVars == <<positions, positions_file, signals, changes, clock, last_action,
            run_length>>
stVars == <<pt_call, pt_outcome>>
lgVars == <<signal_log, log_clock, saved_path>>
rpVars == <<replay_day, current_prices, replay_at, replay_pc>>
scVars == <<et_now, pre_market_done_today, post_market_done_today,
            last_realtime_run, market_holiday_notified_today,
            market_open_notified_today, pre_calls, post_calls, rt_call,
            rt_returned, failures>>
cyVars == <<cycle_mode, cycle_news, cycle_analysis, cycle_events, cycle_count>>
flVars == <<f_day, f_closing, f_at, f_portfolio, f_trades, f_total_invested,
            f_total_proceeds, f_result, f_pc>>
acVars == <<ac_changes, actionable, ac_pc>>
btVars == <<base_investment, commission, portfolio, trades, total_invested,
            total_proceeds, bt_call, bt_returned, bt_pnl, bt_outcome,
            closing_prices, bt_result, bt_pc>>
vars == <<smVars, ptVars, stVars, acVars, btVars, lgVars, rpVars, flVars, cyVars, scVars>>

----------------------------------------------------------------------------
\* Bounds of the model

\* longest ticker_analyses list given to generate_signals
MaxAnalyses == 1
\* signal_count is capped: update_positions is not taken past it
MaxSignalCount == 2
\* the clock stops advancing at this day
MaxDay == 1

Tickers == {"AAPL", "NVDA"}

\* confidence values (hundredths) offered to generate_signals
Confidences == {65, 70, 75, 80, 85, 90, 100}

\* confidence values (hundredths) of the previous signals given to generate_signals
PrevConfidences == {65, 85, 90, 100}

\* confidence values (hundredths) of the signals offered to update_positions
SignalConfidences == {65, 85}

\* process_signal is not taken past this length of the trade list
MaxTrades == 3

\* save_signals is followed up to this clock reading, in ticks
MaxTick == 3

\* signal files of the replayed day
MaxEntries == 2

\* signals of the day replayed in float arithmetic
MaxFloatEntries == 2

\* cycles of the pipeline
MaxCycles == 3

\* hours the scheduler is left running
HorizonHours == 74

\* callbacks of the scheduler that raise
MaxFailures == 2

\* minutes a callback of the scheduler takes at most
MaxCallbackMinutes == 1

\* the scheduler is started on a Friday at 15:00 ET
StartMinute == (4 * 24 + 15) * 60

\* prices (dollars) of the signals offered to process_signal
SignalPrices == {100, 110}

\* confidence values (hundredths) of the signals offered to process_signal
BacktestConfidences == {0, 50, 100}

\* commission rates (percent) the Backtester is built with
Commissions == {0, 1}

\* closing prices (dollars) offered to finalize
ClosingPrices == {100, 120}

----------------------------------------------------------------------------
\* Values

BUY == "buy"
SELL == "sell"
HOLD == "hold"
TradingAction == {BUY, SELL, HOLD}

TradingSignal == {"strong_buy", "buy", "hold", "sell", "strong_sell"}

Modes == {"pre_market", "realtime"}

\* Optional[...]: None is the empty tuple, a present value v is <<v>>
None == <<>>
Some(v) == <<v>>

EmptyDict == [t \in {} |-> 0]

MIN_CONFIDENCE == 70
HIGH_CONFIDENCE == 80
\* the literal 0.1 of the confidence-drop test
CONFIDENCE_DROP == 10

----------------------------------------------------------------------------
\* SignalManager

\* SIGNAL_MAPPING.get(ticker_analysis.signal, TradingAction.HOLD)
SIGNAL_MAPPING(signal) ==
    CASE signal = "strong_buy" -> BUY
      [] signal = "buy" -> BUY
      [] signal = "hold" -> HOLD
      [] signal = "sell" -> SELL
      [] signal = "strong_sell" -> SELL
      [] OTHER -> HOLD

\* mutant: the floor is skipped
LowConfidenceFloor_Skipped(action, confidence) == action

\* "Low confidence -> HOLD": the floor applied before any damping
LowConfidenceFloor(action, confidence) ==
    IF confidence < MIN_CONFIDENCE THEN HOLD ELSE action

\* the test (prev BUY and new SELL) or (prev SELL and new BUY)
IsReversal(prev_action, new_action) ==
    \/ (prev_action = BUY /\ new_action = SELL)
    \/ (prev_action = SELL /\ new_action = BUY)

\* mutant: the reversal is tested against MIN_CONFIDENCE
ReversalBlocked_MinThreshold(prev_action, new_action, new_confidence) ==
    /\ IsReversal(prev_action, new_action)
    /\ new_confidence < MIN_CONFIDENCE

\* mutant: the reversal needs more than HIGH_CONFIDENCE
ReversalBlocked_Inclusive(prev_action, new_action, new_confidence) ==
    /\ IsReversal(prev_action, new_action)
    /\ new_confidence <= HIGH_CONFIDENCE

\* a reversal is refused below HIGH_CONFIDENCE
ReversalBlocked(prev_action, new_action, new_confidence) ==
    /\ IsReversal(prev_action, new_action)
    /\ new_confidence < HIGH_CONFIDENCE

\* mutant: a drop of exactly 0.1 counts as a drop
ConfidenceDropped_Inclusive(new_confidence, prev_confidence) ==
    new_confidence <= prev_confidence - CONFIDENCE_DROP

\* new_confidence < prev_confidence - 0.1
ConfidenceDropped(new_confidence, prev_confidence) ==
    new_confidence < prev_confidence - CONFIDENCE_DROP

\* prev_signal.get("confidence", 0.0)
PrevConfidence(prev_signal) ==
    IF "confidence" \in DOMAIN prev_signal THEN prev_signal.confidence ELSE 0

\* mutant: the confidence-drop test comes before the same-action test
ApplyConservativeFilter_DropFirst(ticker, new_action, new_confidence, prev_signals) ==
    IF ticker \notin DOMAIN prev_signals
    THEN new_action
    ELSE LET prev_signal == prev_signals[ticker]
             prev_action == prev_signal.action
             prev_confidence == PrevConfidence(prev_signal)
         IN  IF ConfidenceDropped(new_confidence, prev_confidence) THEN HOLD
             ELSE IF new_action = prev_action THEN new_action
             ELSE IF ReversalBlocked(prev_action, new_action, new_confidence)
                  THEN prev_action
             ELSE new_action

\* _apply_conservative_filter(ticker, new_action, new_confidence, previous_signals)
ApplyConservativeFilter(ticker, new_action, new_confidence, prev_signals) ==
    IF ticker \notin DOMAIN prev_signals
    THEN new_action
    ELSE LET prev_signal == prev_signals[ticker]
             prev_action == prev_signal.action
             prev_confidence == PrevConfidence(prev_signal)
         IN  IF new_action = prev_action THEN new_action
             ELSE IF ReversalBlocked(prev_action, new_action, new_confidence)
                  THEN prev_action
             ELSE IF ConfidenceDropped(new_confidence, prev_confidence)
                  THEN HOLD
             ELSE new_action

\* mutant: the mode is not tested
FilterApplies_AnyMode(md, prev) ==
    /\ prev # None
    /\ DOMAIN prev[1] # {}

\* `mode == "realtime" and previous_signals`: None and the empty dict are falsy
FilterApplies(md, prev) ==
    /\ md = "realtime"
    /\ prev # None
    /\ DOMAIN prev[1] # {}

\* the action one loop iteration of generate_signals resolves for an analysis
ResolveAction(ta, md, prev) ==
    LET floored == LowConfidenceFloor(SIGNAL_MAPPING(ta.signal), ta.confidence)
    IN  IF FilterApplies(md, prev)
        THEN ApplyConservativeFilter(ta.ticker, floored, ta.confidence, prev[1])
        ELSE floored

\* mutant: a signal whose action was replaced carries the confidence of the
\* previous signal
MakeSignal_DampedConfidence(ta, md, prev) ==
    [ticker |-> ta.ticker,
     action |-> ResolveAction(ta, md, prev),
     confidence |->
         IF /\ FilterApplies(md, prev)
            /\ ta.ticker \in DOMAIN prev[1]
            /\ ResolveAction(ta, md, prev) #
                   LowConfidenceFloor(SIGNAL_MAPPING(ta.signal), ta.confidence)
         THEN PrevConfidence(prev[1][ta.ticker])
         ELSE ta.confidence,
     mode |-> md]

\* the signal dict one loop iteration builds
MakeSignal(ta, md, prev) ==
    [ticker |-> ta.ticker,
     action |-> ResolveAction(ta, md, prev),
     confidence |-> ta.confidence,
     mode |-> md]

\* signals[ticker] = signal
DictSet(d, k, v) ==
    [x \in DOMAIN d \cup {k} |-> IF x = k THEN v ELSE d[x]]

\* the loop of generate_signals over the first n analyses, in list order
RECURSIVE SignalsAfter(_, _, _, _)
SignalsAfter(analyses, n, md, prev) ==
    IF n = 0 THEN EmptyDict
    ELSE DictSet(SignalsAfter(analyses, n - 1, md, prev),
                 analyses[n].ticker,
                 MakeSignal(analyses[n], md, prev))

TickerAnalysis == [ticker : Tickers, signal : TradingSignal, confidence : Confidences]

AnalysisLists == UNION {[1..n -> TickerAnalysis] : n \in 0..MaxAnalyses}

PreviousSignal == [action : TradingAction, confidence : PrevConfidences]

PreviousSignalMaps == UNION {[ts -> PreviousSignal] : ts \in SUBSET Tickers}

PreviousSignalsArgs == {None} \cup {Some(m) : m \in PreviousSignalMaps}

\* generate_signals(analysis_result, mode, previous_signals)
GenerateSignals ==
    /\ sm_pc = "ready"
    /\ current_signals' =
           SignalsAfter(analysis_result, Len(analysis_result), mode, previous_signals)
    /\ sm_pc' = "returned"
    /\ UNCHANGED <<analysis_result, mode, previous_signals>>
    /\ UNCHANGED <<ptVars, stVars, acVars, btVars, lgVars, rpVars, flVars, cyVars, scVars>>

\* ---- the signal log

\* the model reads the clock in half seconds
TicksPerSecond == 2

\* f"signals_{now.strftime('%Y%m%d_%H%M%S')}.json": the default file name
\* keeps the whole seconds of the clock reading
EntryName(now) == <<"signals", now \div TicksPerSecond>>

\* the JSON document save_signals writes
SignalFile(sigs, now) ==
    [generated_at |-> now,
     signal_count |-> Cardinality(DOMAIN sigs),
     signals |-> sigs]

\* the signal maps handed to save_signals
LoggedSignal == [action : {BUY, SELL}, confidence : {85}]

LoggedSignalMaps == UNION {[ts -> LoggedSignal] : ts \in SUBSET Tickers}

\* save_signals(signals), filename left at its default None as every caller
\* does: open(filepath, "w") creates the file or replaces its content
SaveSignals ==
    \E sigs \in LoggedSignalMaps, now \in log_clock..MaxTick :
        /\ signal_log' = DictSet(signal_log, EntryName(now), SignalFile(sigs, now))
        /\ log_clock' = now
        /\ saved_path' = Some(EntryName(now))
        /\ UNCHANGED <<smVars, ptVars, stVars, acVars, btVars, rpVars, flVars, cyVars, scVars>>

----------------------------------------------------------------------------
\* Claims about generate_signals (checked under SpecSignals)

Returned == sm_pc = "returned"

\* the tickers of the analyses given to the call
AnalysedTickers == {analysis_result[i].ticker : i \in 1..Len(analysis_result)}

\* the analysis the emitted signal of ticker t comes from: the last one in the list
AnalysisOf(t) ==
    LET idx == {i \in 1..Len(analysis_result) : analysis_result[i].ticker = t}
    IN  analysis_result[CHOOSE i \in idx : \A j \in idx : j <= i]

\* step 1 as the specification words it
MappedAction(ta) ==
    IF ta.signal \in {"strong_buy", "buy"} THEN BUY
    ELSE IF ta.signal \in {"sell", "strong_sell"} THEN SELL
    ELSE HOLD

\* steps 1 and 2 as the specification words them
FloorMappedAction(ta) == IF ta.confidence < 70 THEN HOLD ELSE MappedAction(ta)

\* damping concerns ticker t: realtime mode and a previous signal for t
Damped(t) ==
    /\ mode = "realtime"
    /\ previous_signals # None
    /\ t \in DOMAIN previous_signals[1]

PrevOf(t) == previous_signals[1][t]

Opposite(a, b) == (a = BUY /\ b = SELL) \/ (a = SELL /\ b = BUY)

\* C1: a ticker whose analysis confidence is below 0.70 resolves to Hold, for
\* every classification, mode and previous-signal map.
C1_LowConfidenceIsHold ==
    Returned =>
        \A t \in AnalysedTickers :
            AnalysisOf(t).confidence < 70 => current_signals[t].action = HOLD

\* a strong_buy below the floor, damped against a previous Buy, came out Hold
C1_Witness ==
    /\ Returned
    /\ \E t \in AnalysedTickers :
           /\ AnalysisOf(t).confidence < 70
           /\ AnalysisOf(t).signal = "strong_buy"
           /\ Damped(t)
           /\ PrevOf(t).action = BUY
           /\ current_signals[t].action = HOLD

\* C2: realtime, previous Buy (Sell), newly mapped Sell (Buy), confidence in
\* [0.70, 0.80): the resolved action is the previous action.
C2_WeakReversalKeepsPrevious ==
    Returned =>
        \A t \in AnalysedTickers :
            ( /\ Damped(t)
              /\ Opposite(PrevOf(t).action, MappedAction(AnalysisOf(t)))
              /\ AnalysisOf(t).confidence >= 70
              /\ AnalysisOf(t).confidence < 80 )
            => current_signals[t].action = PrevOf(t).action

\* previous Buy at 0.90, new sell at 0.75: the signal stays Buy
C2_Witness ==
    /\ Returned
    /\ \E t \in AnalysedTickers :
           /\ Damped(t)
           /\ PrevOf(t).action = BUY
           /\ PrevOf(t).confidence = 90
           /\ AnalysisOf(t).signal = "sell"
           /\ AnalysisOf(t).confidence = 75
           /\ current_signals[t].action = BUY

\* C3 as claimed: realtime, a Buy<->Sell reversal at confidence >= 0.80 resolves
\* to the newly mapped action for every previous confidence.
C3_Original ==
    Returned =>
        \A t \in AnalysedTickers :
            ( /\ Damped(t)
              /\ Opposite(PrevOf(t).action, MappedAction(AnalysisOf(t)))
              /\ AnalysisOf(t).confidence >= 80 )
            => current_signals[t].action = MappedAction(AnalysisOf(t))

\* C3 amended: realtime, a Buy<->Sell reversal at confidence >= 0.80 resolves to
\* the newly mapped action unless the new confidence is more than 0.10 below the
\* previous confidence, in which case it resolves to Hold.
C3_StrongReversal ==
    Returned =>
        \A t \in AnalysedTickers :
            ( /\ Damped(t)
              /\ Opposite(PrevOf(t).action, MappedAction(AnalysisOf(t)))
              /\ AnalysisOf(t).confidence >= 80 )
            => current_signals[t].action =
                   IF AnalysisOf(t).confidence < PrevOf(t).confidence - 10
                   THEN HOLD
                   ELSE MappedAction(AnalysisOf(t))

\* previous Buy at 0.90, new sell at 0.85: the signal became Sell
C3_Witness ==
    /\ Returned
    /\ \E t \in AnalysedTickers :
           /\ Damped(t)
           /\ PrevOf(t).action = BUY
           /\ PrevOf(t).confidence = 90
           /\ MappedAction(AnalysisOf(t)) = SELL
           /\ AnalysisOf(t).confidence = 85
           /\ current_signals[t].action = SELL

\* C4 as claimed: realtime, the newly mapped action equals the previous action
\* and the confidence fell by more than 0.10: the resolved action is Hold.
C4_Original ==
    Returned =>
        \A t \in AnalysedTickers :
            ( /\ Damped(t)
              /\ FloorMappedAction(AnalysisOf(t)) = PrevOf(t).action
              /\ AnalysisOf(t).confidence < PrevOf(t).confidence - 10 )
            => current_signals[t].action = HOLD

\* C4 amended: realtime, when the newly mapped action (after the 0.70 floor)
\* equals the previous action, the resolved action is that same action, also
\* when the confidence fell by more than 0.10.
C4_SameActionKept ==
    Returned =>
        \A t \in AnalysedTickers :
            ( /\ Damped(t)
              /\ FloorMappedAction(AnalysisOf(t)) = PrevOf(t).action )
            => current_signals[t].action = PrevOf(t).action

\* previous Buy at 0.90, new buy at 0.75 (a drop of 0.15): the signal is Buy
C4_Witness ==
    /\ Returned
    /\ \E t \in AnalysedTickers :
           /\ Damped(t)
           /\ PrevOf(t).action = BUY
           /\ PrevOf(t).confidence = 90
           /\ AnalysisOf(t).signal = "buy"
           /\ AnalysisOf(t).confidence = 75
           /\ current_signals[t].action = BUY

C6_UndampedIsFloorMapped ==
    Returned =>
        \A t \in AnalysedTickers :
            ~Damped(t) => current_signals[t].action = FloorMappedAction(AnalysisOf(t))

\* realtime with a previous map that holds another ticker at Buy: a first
\* sighting mapped Sell at 0.70 resolved to Sell
C6_Witness ==
    /\ Returned
    /\ mode = "realtime"
    /\ previous_signals # None
    /\ \E t \in AnalysedTickers, u \in DOMAIN previous_signals[1] :
           /\ t \notin DOMAIN previous_signals[1]
           /\ previous_signals[1][u].action = BUY
           /\ AnalysisOf(t).signal = "sell"
           /\ AnalysisOf(t).confidence = 70
           /\ current_signals[t].action = SELL

\* C27: generate_signals returns a map whose key set is exactly the set of
\* tickers of the input analyses; the signal of a ticker names that ticker and
\* carries the mode of the call and the confidence of the ticker's analysis
\* unchanged (of its last analysis when the list holds several), also when the
\* action was damped.
C27_KeysModeAndConfidence ==
    Returned =>
        /\ DOMAIN current_signals = AnalysedTickers
        /\ \A t \in AnalysedTickers :
               /\ current_signals[t].ticker = t
               /\ current_signals[t].mode = mode
               /\ current_signals[t].confidence = AnalysisOf(t).confidence

\* a realtime call that damped a Buy at 0.75 against a previous Sell at 0.90
\* and still reports 0.75
C27_Witness ==
    /\ Returned
    /\ \E t \in AnalysedTickers :
           /\ Damped(t)
           /\ PrevOf(t).action = SELL
           /\ PrevOf(t).confidence = 90
           /\ AnalysisOf(t).signal = "buy"
           /\ AnalysisOf(t).confidence = 75
           /\ current_signals[t].action = SELL
           /\ current_signals[t].confidence = 75
           /\ current_signals[t].mode = "realtime"

----------------------------------------------------------------------------
\* PositionTracker

NoFile == [exists |-> FALSE]

\* None in a change dict: old_action / old_confidence of a new position
NoAction == "none"
NoConfidence == -1

\* Position(ticker=..., action=..., entry_date=now, ...), reasoning left out
Position(ticker, action, confidence, now) ==
    [ticker |-> ticker,
     action |-> action,
     entry_date |-> now,
     entry_confidence |-> confidence,
     last_updated |-> now,
     current_confidence |-> confidence,
     signal_count |-> 1]

\* mutant: the same-action update forgets signal_count += 1
SameActionUpdate_NoCount(position, confidence, now) ==
    [position EXCEPT !.last_updated = now,
                     !.current_confidence = confidence]

\* "Position unchanged": the in-place update of a same-action signal
SameActionUpdate(position, confidence, now) ==
    [position EXCEPT !.last_updated = now,
                     !.current_confidence = confidence,
                     !.signal_count = @ + 1]

\* mutant: an action change keeps the old signal_count
ChangedUpdate_KeepCount(position, action, confidence, now) ==
    [position EXCEPT !.action = action,
                     !.entry_date = now,
                     !.entry_confidence = confidence,
                     !.last_updated = now,
                     !.current_confidence = confidence]

\* "Update position": the in-place reset after an action change
ChangedUpdate(position, action, confidence, now) ==
    [position EXCEPT !.action = action,
                     !.entry_date = now,
                     !.entry_confidence = confidence,
                     !.last_updated = now,
                     !.current_confidence = confidence,
                     !.signal_count = 1]

\* mutant: old_confidence is read from entry_confidence
PositionChanged_EntryConfidence(ticker, position, action, confidence, now) ==
    [ticker |-> ticker,
     change_type |-> "position_changed",
     old_action |-> position.action,
     new_action |-> action,
     old_confidence |-> position.entry_confidence,
     new_confidence |-> confidence,
     days_held |-> now - position.entry_date]

\* the change dict of an action change, built before the position is reset
PositionChanged(ticker, position, action, confidence, now) ==
    [ticker |-> ticker,
     change_type |-> "position_changed",
     old_action |-> position.action,
     new_action |-> action,
     old_confidence |-> position.current_confidence,
     new_confidence |-> confidence,
     days_held |-> now - position.entry_date]

\* mutant: a ticker without a Position is reported as coming from Hold
NewPosition_FromHold(ticker, action, confidence) ==
    [ticker |-> ticker,
     change_type |-> "new_position",
     old_action |-> HOLD,
     new_action |-> action,
     old_confidence |-> NoConfidence,
     new_confidence |-> confidence]

\* the change dict of a first signal (it has no days_held key)
NewPosition(ticker, action, confidence) ==
    [ticker |-> ticker,
     change_type |-> "new_position",
     old_action |-> NoAction,
     new_action |-> action,
     old_confidence |-> NoConfidence,
     new_confidence |-> confidence]

\* the position of `ticker` after the loop body of update_positions ran on it
PositionAfter(pos, ticker, signal, now) ==
    IF ticker \in DOMAIN pos
    THEN IF pos[ticker].action = signal.action
         THEN SameActionUpdate(pos[ticker], signal.confidence, now)
         ELSE ChangedUpdate(pos[ticker], signal.action, signal.confidence, now)
    ELSE Position(ticker, signal.action, signal.confidence, now)

\* whether the loop body records a change for `ticker` (no `continue`)
EmitsChange(pos, ticker, signal) ==
    ticker \notin DOMAIN pos \/ pos[ticker].action # signal.action

\* changes[ticker] of the loop body
ChangeFor(pos, ticker, signal, now) ==
    IF ticker \in DOMAIN pos
    THEN PositionChanged(ticker, pos[ticker], signal.action, signal.confidence, now)
    ELSE NewPosition(ticker, signal.action, signal.confidence)

\* mutant: a Position closed to Hold is deleted
PositionsAfter_DropClosed(pos, sigs, now) ==
    [t \in {x \in DOMAIN pos \cup DOMAIN sigs :
                ~(x \in DOMAIN pos /\ x \in DOMAIN sigs
                  /\ sigs[x].action = HOLD /\ pos[x].action # HOLD)} |->
        IF t \in DOMAIN sigs THEN PositionAfter(pos, t, sigs[t], now) ELSE pos[t]]

\* self.positions after the loop over signals.items()
PositionsAfter(pos, sigs, now) ==
    [t \in DOMAIN pos \cup DOMAIN sigs |->
        IF t \in DOMAIN sigs THEN PositionAfter(pos, t, sigs[t], now) ELSE pos[t]]

\* the dict `changes` after the loop over signals.items()
ChangesAfter(pos, sigs, now) ==
    [t \in {x \in DOMAIN sigs : EmitsChange(pos, x, sigs[x])} |->
        ChangeFor(pos, t, sigs[t], now)]

\* datetime -> ISO-8601 string, as model_dump(mode="json") writes it
IsoFormat(date) == <<"iso", date>>

\* position.model_dump(mode="json")
ModelDump(position) ==
    [position EXCEPT !.entry_date = IsoFormat(@), !.last_updated = IsoFormat(@)]

\* mutant: positions on Hold are not written
Snapshot_ActiveOnly(pos) ==
    [position_count |-> Cardinality({t \in DOMAIN pos : pos[t].action # HOLD}),
     positions |-> [t \in {x \in DOMAIN pos : pos[x].action # HOLD} |->
                       ModelDump(pos[t])]]

\* the JSON document save_positions writes (updated_at left out)
Snapshot(pos) ==
    [position_count |-> Cardinality(DOMAIN pos),
     positions |-> [t \in DOMAIN pos |-> ModelDump(pos[t])]]

\* the signal dicts update_positions reads: action and confidence
TrackedSignal == [action : TradingAction, confidence : SignalConfidences]

SignalMaps == UNION {[ts -> TrackedSignal] : ts \in SUBSET Tickers}

\* signal_count stays within the model's cap
WithinCount(pos, sigs) ==
    \A t \in DOMAIN sigs \cap DOMAIN pos :
        pos[t].action = sigs[t].action => pos[t].signal_count < MaxSignalCount

\* update_positions(signals), save left at its default True as every caller does
UpdatePositions ==
    \E sigs \in SignalMaps, now \in clock..MaxDay :
        /\ WithinCount(positions, sigs)
        /\ signals' = sigs
        /\ clock' = now
        /\ positions' = PositionsAfter(positions, sigs, now)
        /\ changes' = ChangesAfter(positions, sigs, now)
        /\ positions_file' = Snapshot(PositionsAfter(positions, sigs, now))
        /\ last_action' =
               [t \in DOMAIN last_action \cup DOMAIN sigs |->
                   IF t \in DOMAIN sigs THEN sigs[t].action ELSE last_action[t]]
        /\ run_length' =
               [t \in DOMAIN run_length \cup DOMAIN sigs |->
                   IF t \notin DOMAIN sigs THEN run_length[t]
                   ELSE IF t \in DOMAIN last_action
                           /\ last_action[t] = sigs[t].action
                        THEN run_length[t] + 1
                        ELSE 1]
        /\ UNCHANGED <<smVars, stVars, acVars, btVars, lgVars, rpVars, flVars, cyVars, scVars>>

\* ---- the snapshot file on a disk that can fail

\* content of a positions file that is not a JSON document (empty or cut off)
Truncated == [json |-> FALSE]

\* how the disk treats one save_positions call: "none" lets it through, "open"
\* makes mkdir or open raise OSError before the file is touched, "write"
\* makes json.dump raise OSError after open(..., "w") has emptied the file
StorageFaults == {"none", "open", "write"}

\* the file save_positions leaves behind
SavePositions(file, pos, fault) ==
    CASE fault = "none" -> Snapshot(pos)
      [] fault = "open" -> file
      [] fault = "write" -> Truncated

\* the fields Position requires (signal_count and reasoning have defaults)
RequiredFields == {"ticker", "action", "entry_date", "entry_confidence",
                   "last_updated", "current_confidence"}

\* a string datetime.fromisoformat accepts
IsIsoString(s) == s[1] = "iso"

\* datetime.fromisoformat(s)
FromIsoFormat(s) == s[2]

\* the date conversions and Position(**pos_data) go through for this record
ValidRecord(pos_data) ==
    /\ RequiredFields \subseteq DOMAIN pos_data
    /\ IsIsoString(pos_data.entry_date)
    /\ IsIsoString(pos_data.last_updated)

\* mutant: a reloaded position restarts its signal count
ParsePosition_ResetCount(pos_data) ==
    [ticker |-> pos_data.ticker,
     action |-> pos_data.action,
     entry_date |-> FromIsoFormat(pos_data.entry_date),
     entry_confidence |-> pos_data.entry_confidence,
     last_updated |-> FromIsoFormat(pos_data.last_updated),
     current_confidence |-> pos_data.current_confidence,
     signal_count |-> 1]

\* Position(**pos_data) after the two ISO strings became datetimes
ParsePosition(pos_data) ==
    [ticker |-> pos_data.ticker,
     action |-> pos_data.action,
     entry_date |-> FromIsoFormat(pos_data.entry_date),
     entry_confidence |-> pos_data.entry_confidence,
     last_updated |-> FromIsoFormat(pos_data.last_updated),
     current_confidence |-> pos_data.current_confidence,
     signal_count |-> IF "signal_count" \in DOMAIN pos_data
                      THEN pos_data.signal_count ELSE 1]

\* data.get("positions", {})
PositionsDict(data) ==
    IF "positions" \in DOMAIN data THEN data.positions ELSE EmptyDict

\* mutant: the records read before the failing one are kept
LoadPositions_KeepLoaded(file, pos) ==
    IF file = NoFile THEN pos
    ELSE IF file = Truncated THEN EmptyDict
    ELSE [t \in {x \in DOMAIN PositionsDict(file) :
                     ValidRecord(PositionsDict(file)[x])} |->
             ParsePosition(PositionsDict(file)[t])]

\* self.positions after load_positions on a tracker holding pos: untouched
\* when the file is missing, emptied by the except clause when json.load, a
\* date conversion or Position(**pos_data) raises, the parsed records otherwise
LoadPositions(file, pos) ==
    IF file = NoFile THEN pos
    ELSE IF file = Truncated THEN EmptyDict
    ELSE IF \E t \in DOMAIN PositionsDict(file) :
                ~ValidRecord(PositionsDict(file)[t])
         THEN EmptyDict
         ELSE [t \in DOMAIN PositionsDict(file) |->
                  ParsePosition(PositionsDict(file)[t])]

\* PositionTracker(positions_file): a fresh tracker on the file as it is
Construct ==
    /\ positions' = LoadPositions(positions_file, EmptyDict)
    /\ signals' = EmptyDict
    /\ changes' = EmptyDict
    /\ pt_call' = "__init__"
    /\ pt_outcome' = "returned"
    /\ UNCHANGED <<positions_file, clock, last_action, run_length>>
    /\ UNCHANGED <<smVars, acVars, btVars, lgVars, rpVars, flVars, cyVars, scVars>>

\* the signal maps handed to update_positions on such a disk
StoredSignal == [action : {BUY}, confidence : {85}]

StoredSignalMaps == UNION {[ts -> StoredSignal] : ts \in SUBSET Tickers}

\* update_positions(signals) on a disk that can fail: the loop over the
\* signals has changed self.positions before save_positions is called, whether
\* or not the save raises; an OSError of the save leaves the call without a
\* return value
UpdatePositionsOnDisk ==
    \E sigs \in StoredSignalMaps, now \in clock..MaxDay, fault \in StorageFaults :
        /\ pt_call # "none"
        /\ WithinCount(positions, sigs)
        /\ signals' = sigs
        /\ clock' = now
        /\ positions' = PositionsAfter(positions, sigs, now)
        /\ positions_file' =
               SavePositions(positions_file,
                             PositionsAfter(positions, sigs, now), fault)
        /\ changes' = IF fault = "none"
                      THEN ChangesAfter(positions, sigs, now)
                      ELSE EmptyDict
        /\ pt_call' = "update_positions"
        /\ pt_outcome' = IF fault = "none" THEN "returned" ELSE "raised"
        /\ UNCHANGED <<last_action, run_length>>
        /\ UNCHANGED <<smVars, acVars, btVars, lgVars, rpVars, flVars, cyVars, scVars>>

\* mutant: every new position is announced
HandleNewPosition_Any(change) == Some(change)

\* _handle_new_position: a new position is announced when it is Buy or Sell
HandleNewPosition(change) ==
    IF change.new_action \in {BUY, SELL} THEN Some(change) ELSE None

IsBuySellReversal(old_action, new_action) ==
    \/ (old_action = BUY /\ new_action = SELL)
    \/ (old_action = SELL /\ new_action = BUY)

\* mutant: a Buy or Sell closed to Hold is returned without the re-tagging
HandlePositionChanged_NoRetag(change) ==
    IF change.old_action = HOLD /\ change.new_action \in {BUY, SELL}
    THEN Some(change)
    ELSE IF IsBuySellReversal(change.old_action, change.new_action)
    THEN Some(change)
    ELSE IF change.new_action = HOLD /\ change.old_action \in {BUY, SELL}
    THEN Some(change)
    ELSE None

\* _handle_position_changed: cases 1, 2 and 3, else None; case 3 returns the
\* new dict {**change, "change_type": "position_closed"}
HandlePositionChanged(change) ==
    IF change.old_action = HOLD /\ change.new_action \in {BUY, SELL}
    THEN Some(change)
    ELSE IF IsBuySellReversal(change.old_action, change.new_action)
    THEN Some(change)
    ELSE IF change.new_action = HOLD /\ change.old_action \in {BUY, SELL}
    THEN Some([change EXCEPT !.change_type = "position_closed"])
    ELSE None

EvaluateChange(change) ==
    IF change.change_type = "new_position" THEN HandleNewPosition(change)
    ELSE IF change.change_type = "position_changed"
    THEN HandlePositionChanged(change)
    ELSE None

\* the dict `actionable`: the tickers whose evaluation is not None
GetActionableChanges(chs) ==
    [t \in {x \in DOMAIN chs : EvaluateChange(chs[x]) # None} |->
        EvaluateChange(chs[t])[1]]

\* the argument after the call: no statement writes to it or to its dicts
\* (case 3 builds a new dict)
ArgumentAfter(chs) == chs

\* the change dicts offered to get_actionable_changes for one ticker: the
\* new_position and position_changed dicts of update_positions for every pair
\* of actions, equal ones included, and dicts already tagged position_closed
ChangeDicts(t) ==
    LET new == {NewPosition(t, a, c) : a \in TradingAction, c \in SignalConfidences}
        changed == {PositionChanged(t, Position(t, oa, oc, 0), a, c, d) :
                        oa \in TradingAction, oc \in SignalConfidences,
                        a \in TradingAction, c \in SignalConfidences,
                        d \in 0..MaxDay}
        closed == {[ch EXCEPT !.change_type = "position_closed"] : ch \in new}
    IN  new \cup changed \cup closed

ChangeMaps ==
    UNION {{m \in [ts -> UNION {ChangeDicts(t) : t \in ts}] :
                \A t \in ts : m[t].ticker = t} : ts \in SUBSET Tickers}

\* get_actionable_changes(changes)
GetActionable ==
    /\ ac_pc = "ready"
    /\ actionable' = GetActionableChanges(ac_changes)
    /\ ac_changes' = ArgumentAfter(ac_changes)
    /\ ac_pc' = "returned"
    /\ UNCHANGED <<smVars, ptVars, stVars, btVars, lgVars, rpVars, flVars, cyVars, scVars>>

----------------------------------------------------------------------------
\* Backtester
\*
\* Units: prices and base_investment are whole dollars, money amounts are
\* cents, share counts are hundredths of a share, confidence is in hundredths
\* and commission in percent.  A call is modelled only when its arithmetic is
\* exact in these units (Representable); on such calls the code's doubles hold
\* the same values.  A quotient that is reported but never reused (the
\* percentages) is the exact fraction, as a reduced pair <<numerator,
\* denominator>>.  timestamp and reasoning are copied into the Trade and the
\* lot without being read and are left out.

\* config default of backtester.base_investment_per_signal, in dollars
BASE_INVESTMENT_PER_SIGNAL == 1000
\* config default of backtester.commission, in percent
DEFAULT_COMMISSION == 0

Abs(n) == IF n < 0 THEN 0 - n ELSE n

RECURSIVE Gcd(_, _)
Gcd(a, b) == IF b = 0 THEN a ELSE Gcd(b, a % b)

\* the float quotient n / d, d > 0
Quotient(n, d) ==
    LET g == Gcd(Abs(n), d) IN <<n \div g, d \div g>>

\* (n / d) * 100
Percent(n, d) == Quotient(n * 100, d)

RECURSIVE SumValues(_)
SumValues(f) ==
    IF DOMAIN f = {} THEN 0
    ELSE LET t == CHOOSE x \in DOMAIN f : TRUE
         IN  f[t] + SumValues([x \in DOMAIN f \ {t} |-> f[x]])

\* mutant: the investment is the base amount whatever the confidence
InvestmentAmount_Flat(base, confidence) == base * 100

\* investment_amount = self.base_investment * confidence, in cents
InvestmentAmount(base, confidence) == base * confidence

\* shares = investment_amount / price, in hundredths of a share
Shares(investment_amount, price) == investment_amount \div price

\* cost = investment_amount * (1 + self.commission)
Cost(investment_amount, com) == (investment_amount * (100 + com)) \div 100

\* proceeds = shares * price * (1 - self.commission)
Proceeds(shares, price, com) == (shares * price * (100 - com)) \div 100

\* the lot dict _process_buy stores
Lot(base, com, price, confidence) ==
    [shares |-> Shares(InvestmentAmount(base, confidence), price),
     avg_price |-> price,
     investment_amount |-> Cost(InvestmentAmount(base, confidence), com),
     entry_confidence |-> confidence]

\* Trade(action="buy", ...)
BuyTrade(base, com, ticker, price, confidence) ==
    [ticker |-> ticker,
     action |-> BUY,
     price |-> price,
     shares |-> Shares(InvestmentAmount(base, confidence), price),
     signal_confidence |-> confidence,
     investment_amount |-> Cost(InvestmentAmount(base, confidence), com)]

\* Trade(action="sell", ...): investment_amount holds the proceeds
SellTrade(com, lot, ticker, price, confidence) ==
    [ticker |-> ticker,
     action |-> SELL,
     price |-> price,
     shares |-> lot.shares,
     signal_confidence |-> confidence,
     investment_amount |-> Proceeds(lot.shares, price, com)]

\* _process_buy goes past its early return
BuyExecutes(pf, ticker, action) == action = BUY /\ ticker \notin DOMAIN pf

\* _process_sell goes past its early return
SellReached(pf, ticker, action) == action = SELL /\ ticker \in DOMAIN pf

\* pnl / investment_amount raises ZeroDivisionError on a lot that cost nothing
SellRaises(pf, ticker, action) ==
    SellReached(pf, ticker, action) /\ pf[ticker].investment_amount = 0

SellExecutes(pf, ticker, action) ==
    SellReached(pf, ticker, action) /\ pf[ticker].investment_amount # 0

\* the divisions and products of the call come out even in the model's units
Representable(base, com, pf, ticker, action, price, confidence) ==
    /\ BuyExecutes(pf, ticker, action) =>
           /\ InvestmentAmount(base, confidence) % price = 0
           /\ (InvestmentAmount(base, confidence) * (100 + com)) % 100 = 0
    /\ SellReached(pf, ticker, action) =>
           (pf[ticker].shares * price * (100 - com)) % 100 = 0

\* mutant: a Buy on an open lot replaces the lot
PortfolioAfter_Rebuy(base, com, pf, ticker, action, price, confidence) ==
    IF action = BUY
    THEN [t \in DOMAIN pf \cup {ticker} |->
             IF t = ticker THEN Lot(base, com, price, confidence) ELSE pf[t]]
    ELSE IF SellExecutes(pf, ticker, action)
    THEN [t \in DOMAIN pf \ {ticker} |-> pf[t]]
    ELSE pf

\* self.portfolio after process_signal
PortfolioAfter(base, com, pf, ticker, action, price, confidence) ==
    IF BuyExecutes(pf, ticker, action)
    THEN [t \in DOMAIN pf \cup {ticker} |->
             IF t = ticker THEN Lot(base, com, price, confidence) ELSE pf[t]]
    ELSE IF SellExecutes(pf, ticker, action)
    THEN [t \in DOMAIN pf \ {ticker} |-> pf[t]]
    ELSE pf

\* mutant: a Hold is executed like a Buy
ReturnedTrade_HoldBuys(base, com, pf, ticker, action, price, confidence) ==
    IF action \in {BUY, HOLD} /\ ticker \notin DOMAIN pf
    THEN Some(BuyTrade(base, com, ticker, price, confidence))
    ELSE IF SellExecutes(pf, ticker, action)
    THEN Some(SellTrade(com, pf[ticker], ticker, price, confidence))
    ELSE None

\* the Optional[Trade] process_signal returns (None also when it raises)
ReturnedTrade(base, com, pf, ticker, action, price, confidence) ==
    IF BuyExecutes(pf, ticker, action)
    THEN Some(BuyTrade(base, com, ticker, price, confidence))
    ELSE IF SellExecutes(pf, ticker, action)
    THEN Some(SellTrade(com, pf[ticker], ticker, price, confidence))
    ELSE None

\* self.trades after process_signal: the returned Trade is appended
TradesAfter(trs, returned) ==
    IF returned = None THEN trs ELSE Append(trs, returned[1])

\* self.total_invested after process_signal
TotalInvestedAfter(base, com, invested, pf, ticker, action, confidence) ==
    IF BuyExecutes(pf, ticker, action)
    THEN invested + Cost(InvestmentAmount(base, confidence), com)
    ELSE invested

\* self.total_proceeds after process_signal: added to before pnl_pct is
\* computed, so also by a call that raises
TotalProceedsAfter(com, proceeds, pf, ticker, action, price) ==
    IF SellReached(pf, ticker, action)
    THEN proceeds + Proceeds(pf[ticker].shares, price, com)
    ELSE proceeds

\* pnl = proceeds - investment_amount, which _process_sell logs as the
\* realized P&L of the lot it closed
RealizedPnl(com, pf, ticker, action, price) ==
    IF SellExecutes(pf, ticker, action)
    THEN Some(Proceeds(pf[ticker].shares, price, com)
                  - pf[ticker].investment_amount)
    ELSE None

\* process_signal(ticker, action, price, confidence, timestamp, reasoning)
ProcessSignal ==
    /\ bt_pc = "running"
    /\ \E ticker \in Tickers, action \in TradingAction,
          price \in SignalPrices, confidence \in BacktestConfidences :
          LET returned == ReturnedTrade(base_investment, commission, portfolio,
                                        ticker, action, price, confidence)
          IN  /\ Representable(base_investment, commission, portfolio,
                               ticker, action, price, confidence)
              /\ Len(TradesAfter(trades, returned)) <= MaxTrades
              /\ bt_call' = Some([ticker |-> ticker, action |-> action])
              /\ bt_returned' = returned
              /\ bt_outcome' = IF SellRaises(portfolio, ticker, action)
                               THEN "raised" ELSE "returned"
              /\ bt_pnl' = RealizedPnl(commission, portfolio, ticker, action, price)
              /\ portfolio' = PortfolioAfter(base_investment, commission, portfolio,
                                             ticker, action, price, confidence)
              /\ trades' = TradesAfter(trades, returned)
              /\ total_invested' =
                     TotalInvestedAfter(base_investment, commission, total_invested,
                                        portfolio, ticker, action, confidence)
              /\ total_proceeds' =
                     TotalProceedsAfter(commission, total_proceeds, portfolio,
                                        ticker, action, price)
    /\ UNCHANGED <<base_investment, commission, closing_prices, bt_result, bt_pc>>
    /\ UNCHANGED <<smVars, ptVars, stVars, acVars, lgVars, rpVars, flVars, cyVars, scVars>>

\* one entry of positions_at_close
LotValuation(lot, current_price) ==
    [shares |-> lot.shares,
     avg_price |-> lot.avg_price,
     investment_amount |-> lot.investment_amount,
     current_price |-> current_price,
     market_value |-> lot.shares * current_price,
     pnl |-> lot.shares * current_price - lot.investment_amount,
     pnl_pct |-> Percent(lot.shares * current_price - lot.investment_amount,
                         lot.investment_amount)]

\* positions_at_close: the lots whose ticker is `in closing_prices`
PositionsAtClose(pf, closing) ==
    [t \in DOMAIN pf \cap DOMAIN closing |-> LotValuation(pf[t], closing[t])]

\* unrealized_total_value
UnrealizedTotalValue(valued) ==
    SumValues([t \in DOMAIN valued |-> valued[t].market_value])

\* unrealized_pnl
UnrealizedPnl(valued) ==
    SumValues([t \in DOMAIN valued |-> valued[t].pnl])

\* mutant: the open lots are left out of the total value
TotalValue_ProceedsOnly(proceeds, valued) == proceeds

\* total_value = self.total_proceeds + unrealized_total_value
TotalValue(proceeds, valued) == proceeds + UnrealizedTotalValue(valued)

\* total_return_pct
TotalReturnPct(total_return_usd, invested) ==
    IF invested > 0 THEN Percent(total_return_usd, invested) ELSE Quotient(0, 1)

BuyIndices(trs, ticker) ==
    {i \in 1..Len(trs) : trs[i].action = BUY /\ trs[i].ticker = ticker}

Last(S) == CHOOSE i \in S : \A j \in S : j <= i

First(S) == CHOOSE i \in S : \A j \in S : i <= j

\* buy_trades = {t.ticker: t for t in self.trades if t.action == "buy"}: a
\* later buy of a ticker replaces the earlier one
BuyTrades(trs) ==
    [t \in {trs[i].ticker : i \in {j \in 1..Len(trs) : trs[j].action = BUY}} |->
        trs[Last(BuyIndices(trs, t))]]

\* the trades the pairing loop looks at
PairedSells(trs) ==
    {i \in 1..Len(trs) :
        trs[i].action = SELL /\ trs[i].ticker \in DOMAIN BuyTrades(trs)}

\* pnl = trade.investment_amount - buy_trade.investment_amount
PairedPnl(trs, i) ==
    trs[i].investment_amount - BuyTrades(trs)[trs[i].ticker].investment_amount

\* the dict stored as best_trade or worst_trade
TradeSummary(trs, i) ==
    LET buy_trade == BuyTrades(trs)[trs[i].ticker]
    IN  [ticker |-> trs[i].ticker,
         buy_price |-> buy_trade.price,
         sell_price |-> trs[i].price,
         shares |-> trs[i].shares,
         investment |-> buy_trade.investment_amount,
         proceeds |-> trs[i].investment_amount,
         pnl |-> PairedPnl(trs, i),
         pnl_pct |-> Percent(PairedPnl(trs, i), buy_trade.investment_amount)]

WinningTrades(trs) == Cardinality({i \in PairedSells(trs) : PairedPnl(trs, i) > 0})

LosingTrades(trs) == Cardinality({i \in PairedSells(trs) : ~(PairedPnl(trs, i) > 0)})

\* `if pnl > best_pnl`: the first trade that reaches the largest pnl
BestTrade(trs) ==
    IF PairedSells(trs) = {} THEN None
    ELSE Some(TradeSummary(trs, First({i \in PairedSells(trs) :
                  \A j \in PairedSells(trs) : PairedPnl(trs, j) <= PairedPnl(trs, i)})))

\* `if pnl < worst_pnl`: the first trade that reaches the smallest pnl
WorstTrade(trs) ==
    IF PairedSells(trs) = {} THEN None
    ELSE Some(TradeSummary(trs, First({i \in PairedSells(trs) :
                  \A j \in PairedSells(trs) : PairedPnl(trs, i) <= PairedPnl(trs, j)})))

\* mutant: the rate is taken over all trades, the Buys included
WinRate_OfAllTrades(trs) ==
    IF Len(trs) > 0
    THEN Percent(WinningTrades(trs), Len(trs))
    ELSE Quotient(0, 1)

\* win_rate: guarded by total_closed_trades > 0
WinRate(trs) ==
    IF WinningTrades(trs) + LosingTrades(trs) > 0
    THEN Percent(WinningTrades(trs), WinningTrades(trs) + LosingTrades(trs))
    ELSE Quotient(0, 1)

\* the two pnl_pct divisions raise ZeroDivisionError on an investment of 0
FinalizeRaises(pf, trs, closing) ==
    \/ \E t \in DOMAIN pf \cap DOMAIN closing : pf[t].investment_amount = 0
    \/ \E i \in PairedSells(trs) :
           BuyTrades(trs)[trs[i].ticker].investment_amount = 0

\* BacktestResult(...)
FinalizeResult(pf, trs, invested, proceeds, closing) ==
    LET valued == PositionsAtClose(pf, closing)
        total_value == TotalValue(proceeds, valued)
    IN  [total_invested |-> invested,
         total_proceeds |-> proceeds,
         total_value |-> total_value,
         total_return_pct |-> TotalReturnPct(total_value - invested, invested),
         total_return_usd |-> total_value - invested,
         trades |-> trs,
         winning_trades |-> WinningTrades(trs),
         losing_trades |-> LosingTrades(trs),
         win_rate |-> WinRate(trs),
         best_trade |-> BestTrade(trs),
         worst_trade |-> WorstTrade(trs),
         positions_at_close |-> valued,
         unrealized_pnl |-> UnrealizedPnl(valued)]

ClosingPriceMaps == UNION {[ts -> ClosingPrices] : ts \in SUBSET Tickers}

\* finalize(closing_prices): the last call of a replay
Finalize ==
    /\ bt_pc = "running"
    /\ \E closing \in ClosingPriceMaps :
          /\ closing_prices' = closing
          /\ bt_outcome' = IF FinalizeRaises(portfolio, trades, closing)
                           THEN "raised" ELSE "returned"
          /\ bt_result' = IF FinalizeRaises(portfolio, trades, closing)
                          THEN None
                          ELSE Some(FinalizeResult(portfolio, trades, total_invested,
                                                   total_proceeds, closing))
    /\ bt_pc' = "finalized"
    /\ UNCHANGED <<base_investment, commission, portfolio, trades, total_invested,
                   total_proceeds, bt_call, bt_returned, bt_pnl>>
    /\ UNCHANGED <<smVars, ptVars, stVars, acVars, lgVars, rpVars, flVars, cyVars, scVars>>

\* ---- run_daily_backtest

\* the explicit prices a replayed signal can carry, in dollars
ReplayPrices == {125}

\* closing price of every ticker that has one, in dollars
ReplayClosingPrice == 100

\* a signal dict as the loop reads it: action, confidence and price
ReplayedSignal ==
    [ticker : Tickers, action : {BUY, SELL}, confidence : {100},
     price : {None} \cup {Some(p) : p \in ReplayPrices}]

\* data.get("signals", {}) of one file: a dict, so no ticker twice
ReplayEntries ==
    {e \in UNION {[1..n -> ReplayedSignal] : n \in 0..Cardinality(Tickers)} :
        \A i, j \in 1..Len(e) : e[i].ticker = e[j].ticker => i = j}

\* sorted(signals_dir.glob(...)), each file read
ReplayDays == UNION {[1..n -> ReplayEntries] : n \in 0..MaxEntries}

\* current_prices: AAPL always has a closing price
CurrentPriceMaps ==
    {[t \in ts |-> ReplayClosingPrice] : ts \in {{"AAPL"}, Tickers}}

\* the signals of the day in the order the two loops take them
RECURSIVE Flatten(_, _)
Flatten(day, n) ==
    IF n = 0 THEN <<>> ELSE Flatten(day, n - 1) \o day[n]

\* mutant: only the signal's own price is used
ReplayPrice_NoFallback(signal, closing) == signal.price

\* price = signal.get("price"), then current_prices.get(ticker) when it is None
ReplayPrice(signal, closing) ==
    IF signal.price # None THEN signal.price
    ELSE IF signal.ticker \in DOMAIN closing THEN Some(closing[signal.ticker])
    ELSE None

\* the Backtester fields that process_signal changes
BacktesterState(pf, trs, invested, proceeds) ==
    [portfolio |-> pf, trades |-> trs,
     total_invested |-> invested, total_proceeds |-> proceeds]

\* one iteration of the inner loop on Backtester state st: `continue` when no
\* price is found, process_signal otherwise
ReplayedSignalAfter(st, signal, closing) ==
    LET price == ReplayPrice(signal, closing)
    IN  IF price = None THEN st
        ELSE BacktesterState(
                 PortfolioAfter(BASE_INVESTMENT_PER_SIGNAL, DEFAULT_COMMISSION,
                                st.portfolio, signal.ticker, signal.action,
                                price[1], signal.confidence),
                 TradesAfter(st.trades,
                             ReturnedTrade(BASE_INVESTMENT_PER_SIGNAL,
                                           DEFAULT_COMMISSION, st.portfolio,
                                           signal.ticker, signal.action,
                                           price[1], signal.confidence)),
                 TotalInvestedAfter(BASE_INVESTMENT_PER_SIGNAL,
                                    DEFAULT_COMMISSION, st.total_invested,
                                    st.portfolio, signal.ticker, signal.action,
                                    signal.confidence),
                 TotalProceedsAfter(DEFAULT_COMMISSION, st.total_proceeds,
                                    st.portfolio, signal.ticker, signal.action,
                                    price[1]))

\* process_signal raises in this iteration
ReplayedSignalRaises(st, signal, closing) ==
    /\ ReplayPrice(signal, closing) # None
    /\ SellRaises(st.portfolio, signal.ticker, signal.action)

\* one iteration of the inner loop of run_daily_backtest
ReplaySignal ==
    /\ replay_pc = "running"
    /\ replay_at < Len(Flatten(replay_day, Len(replay_day)))
    /\ LET signal == Flatten(replay_day, Len(replay_day))[replay_at + 1]
           st == BacktesterState(portfolio, trades, total_invested,
                                 total_proceeds)
           after == ReplayedSignalAfter(st, signal, current_prices)
       IN  /\ portfolio' = after.portfolio
           /\ trades' = after.trades
           /\ total_invested' = after.total_invested
           /\ total_proceeds' = after.total_proceeds
           /\ bt_outcome' =
                  IF ReplayedSignalRaises(st, signal, current_prices)
                  THEN "raised" ELSE "returned"
           /\ replay_pc' =
                  IF ReplayedSignalRaises(st, signal, current_prices)
                  THEN "raised" ELSE "running"
    /\ replay_at' = replay_at + 1
    /\ UNCHANGED <<base_investment, commission, bt_call, bt_returned, bt_pnl,
                   closing_prices, bt_result, bt_pc>>
    /\ UNCHANGED <<replay_day, current_prices>>
    /\ UNCHANGED <<smVars, ptVars, stVars, acVars, lgVars, flVars, cyVars, scVars>>

\* the end of run_daily_backtest: None when the day has no signal file (the
\* early return), backtester.finalize(current_prices) after the loops otherwise
ReplayFinalize ==
    /\ replay_pc = "running"
    /\ replay_at = Len(Flatten(replay_day, Len(replay_day)))
    /\ IF replay_day = <<>>
       THEN /\ replay_pc' = "returned"
            /\ UNCHANGED <<closing_prices, bt_outcome, bt_result, bt_pc>>
       ELSE /\ closing_prices' = current_prices
            /\ bt_outcome' =
                   IF FinalizeRaises(portfolio, trades, current_prices)
                   THEN "raised" ELSE "returned"
            /\ replay_pc' =
                   IF FinalizeRaises(portfolio, trades, current_prices)
                   THEN "raised" ELSE "returned"
            /\ bt_result' =
                   IF FinalizeRaises(portfolio, trades, current_prices)
                   THEN None
                   ELSE Some(FinalizeResult(portfolio, trades, total_invested,
                                            total_proceeds, current_prices))
            /\ bt_pc' = "finalized"
    /\ UNCHANGED <<base_investment, commission, portfolio, trades, total_invested,
                   total_proceeds, bt_call, bt_returned, bt_pnl>>
    /\ UNCHANGED <<replay_day, current_prices, replay_at>>
    /\ UNCHANGED <<smVars, ptVars, stVars, acVars, lgVars, flVars, cyVars, scVars>>

\* the state __init__ leaves, but for self.commission
BacktesterFresh ==
    /\ base_investment = BASE_INVESTMENT_PER_SIGNAL
    /\ portfolio = EmptyDict
    /\ trades = <<>>
    /\ total_invested = 0
    /\ total_proceeds = 0
    /\ bt_call = None
    /\ bt_returned = None
    /\ bt_pnl = None
    /\ bt_outcome = "returned"
    /\ closing_prices = EmptyDict
    /\ bt_result = None
    /\ bt_pc = "running"

\* Backtester(): both arguments from the config defaults
BacktesterIdle == commission = DEFAULT_COMMISSION /\ BacktesterFresh

\* Backtester(commission=...)
BacktesterInit == commission \in Commissions /\ BacktesterFresh

----------------------------------------------------------------------------
\* Initial states and specifications

\* the tracker built on a missing positions file: load_positions returns at once
TrackerInit ==
    /\ positions = EmptyDict
    /\ positions_file = NoFile
    /\ signals = EmptyDict
    /\ changes = EmptyDict
    /\ clock = 0
    /\ last_action = EmptyDict
    /\ run_length = EmptyDict
    /\ pt_call = "none"
    /\ pt_outcome = "returned"

\* a SignalManager that generate_signals has not been called on
SignalsIdle ==
    /\ analysis_result = <<>>
    /\ mode = "pre_market"
    /\ previous_signals = None
    /\ current_signals = EmptyDict
    /\ sm_pc = "idle"

\* an empty signals_dir, as SignalManager.__init__ creates it
LogEmpty ==
    /\ signal_log = EmptyDict
    /\ log_clock = 0
    /\ saved_path = None

\* ---------------------------------------------------------------------
\* Float arithmetic of the backtester.  Python's float is IEEE 754
\* binary64: every operation returns the exact result rounded to 53
\* significant bits, ties to even.  A natural number is a sequence of
\* limbs of LimbBits bits, lowest limb first, without high zero limbs; a
\* float is a sign, a significand of exactly Precision bits and a binary
\* exponent (zero has the empty significand).  The values of a replay are
\* far from the exponent limits, so overflow and subnormal numbers are
\* not modelled, and a divisor is a float whose odd part fits one limb
\* (every whole or quarter dollar price below that does).
\* ---------------------------------------------------------------------
Precision == 53

LimbBits == 13

Base == 2 ^ LimbBits

RECURSIVE Limbs(_)
Limbs(n) == IF n = 0 THEN <<>> ELSE <<n % Base>> \o Limbs(n \div Base)

Trim(a) ==
    LET used == {i \in 1..Len(a) : a[i] # 0}
    IN  IF used = {} THEN <<>>
        ELSE SubSeq(a, 1, CHOOSE i \in used : \A j \in used : j <= i)

LimbAt(a, i) == IF i <= Len(a) THEN a[i] ELSE 0

Rest(a) == IF a = <<>> THEN <<>> ELSE Tail(a)

RECURSIVE AddCarry(_, _, _)
AddCarry(a, b, carry) ==
    IF a = <<>> /\ b = <<>>
    THEN IF carry = 0 THEN <<>> ELSE <<carry>>
    ELSE LET s == LimbAt(a, 1) + LimbAt(b, 1) + carry
         IN  <<s % Base>> \o AddCarry(Rest(a), Rest(b), s \div Base)

AddLimbs(a, b) == AddCarry(a, b, 0)

RECURSIVE SubBorrow(_, _, _)
SubBorrow(a, b, borrow) ==
    IF a = <<>> THEN <<>>
    ELSE LET d == a[1] - LimbAt(b, 1) - borrow
         IN  <<(d + Base) % Base>> \o SubBorrow(Tail(a), Rest(b), IF d < 0 THEN 1 ELSE 0)

SubLimbs(a, b) == Trim(SubBorrow(a, b, 0))

LessLimbs(a, b) ==
    IF Len(a) # Len(b) THEN Len(a) < Len(b)
    ELSE \E i \in 1..Len(a) :
             /\ a[i] < b[i]
             /\ \A j \in (i + 1)..Len(a) : a[j] = b[j]

RECURSIVE MulCarry(_, _, _)
MulCarry(a, k, carry) ==
    IF a = <<>>
    THEN IF carry = 0 THEN <<>> ELSE <<carry>>
    ELSE LET s == a[1] * k + carry
         IN  <<s % Base>> \o MulCarry(Tail(a), k, s \div Base)

MulSmall(a, k) == Trim(MulCarry(a, k, 0))

ShiftLimbs(a, t) == IF a = <<>> THEN <<>> ELSE [i \in 1..t |-> 0] \o a

ShiftLeft(a, k) == ShiftLimbs(MulSmall(a, 2 ^ (k % LimbBits)), k \div LimbBits)

RECURSIVE MulLimbs(_, _)
MulLimbs(a, b) ==
    IF b = <<>> THEN <<>>
    ELSE AddLimbs(MulSmall(a, b[1]), ShiftLimbs(MulLimbs(a, Tail(b)), 1))

RECURSIVE DivSmall(_, _, _, _, _)
DivSmall(a, d, i, q, r) ==
    IF i = 0 THEN [q |-> Trim(q), r |-> r]
    ELSE LET n == r * Base + a[i]
         IN  DivSmall(a, d, i - 1, <<n \div d>> \o q, n % d)

BitLen(a) ==
    IF a = <<>> THEN 0
    ELSE LimbBits * (Len(a) - 1)
             + CHOOSE b \in 1..LimbBits : 2 ^ (b - 1) <= a[Len(a)] /\ a[Len(a)] < 2 ^ b

LowZeroBits(a) ==
    LET first == CHOOSE i \in 1..Len(a) : a[i] # 0 /\ \A j \in 1..(i - 1) : a[j] = 0
    IN  LimbBits * (first - 1)
            + CHOOSE z \in 0..(LimbBits - 1) :
                  a[first] % (2 ^ z) = 0 /\ a[first] % (2 ^ (z + 1)) # 0

OddPart(a) ==
    LET z     == LowZeroBits(a)
        whole == SubSeq(a, z \div LimbBits + 1, Len(a))
    IN  DivSmall(whole, 2 ^ (z % LimbBits), Len(whole), <<>>, 0).q

Zero == [neg |-> FALSE, m |-> <<>>, e |-> 0]

RoundNearestEven(neg, n, e, inexact) ==
    IF n = <<>> THEN Zero
    ELSE IF BitLen(n) <= Precision
    THEN [neg |-> neg, m |-> ShiftLeft(n, Precision - BitLen(n)),
          e |-> e - (Precision - BitLen(n))]
    ELSE LET d     == BitLen(n) - Precision
             t     == (d + LimbBits - 1) \div LimbBits
             s     == LimbBits * t - d
             w     == ShiftLeft(n, s)
             kept  == SubSeq(w, t + 1, Len(w))
             half  == Base \div 2
             rest  == \/ inexact
                      \/ w[t] % half # 0
                      \/ \E i \in 1..(t - 1) : w[i] # 0
             up    == w[t] >= half /\ (rest \/ kept[1] % 2 = 1)
             r     == IF up THEN AddLimbs(kept, <<1>>) ELSE kept
         IN  IF BitLen(r) > Precision
             THEN [neg |-> neg, m |-> ShiftLeft(<<1>>, Precision - 1), e |-> e + d + 1]
             ELSE [neg |-> neg, m |-> r, e |-> e + d]

FromInt(n) == RoundNearestEven(FALSE, Limbs(n), 0, FALSE)

One == FromInt(1)

Neg(x) == IF x.m = <<>> THEN x ELSE [x EXCEPT !.neg = ~x.neg]

FMul(x, y) == RoundNearestEven(x.neg # y.neg, MulLimbs(x.m, y.m), x.e + y.e, FALSE)

FDiv(x, y) ==
    LET k  == LimbBits * (Precision \div LimbBits + 2)
        a  == ShiftLeft(x.m, k)
        dm == DivSmall(a, OddPart(y.m)[1], Len(a), <<>>, 0)
    IN  IF x.m = <<>> THEN Zero
        ELSE RoundNearestEven(x.neg # y.neg, dm.q,
                              x.e - k - (y.e + LowZeroBits(y.m)), dm.r # 0)

FAdd(x, y) ==
    LET e == IF x.e < y.e THEN x.e ELSE y.e
        a == ShiftLeft(x.m, x.e - e)
        b == ShiftLeft(y.m, y.e - e)
    IN  IF x.m = <<>> THEN y
        ELSE IF y.m = <<>> THEN x
        ELSE IF x.e - y.e > Precision + 1 THEN x
        ELSE IF y.e - x.e > Precision + 1 THEN y
        ELSE IF x.neg = y.neg THEN RoundNearestEven(x.neg, AddLimbs(a, b), e, FALSE)
        ELSE IF LessLimbs(a, b) THEN RoundNearestEven(y.neg, SubLimbs(b, a), e, FALSE)
        ELSE RoundNearestEven(x.neg, SubLimbs(a, b), e, FALSE)

FSub(x, y) == FAdd(x, Neg(y))

Positive(x) == x.m # <<>> /\ ~x.neg

\* ---- run_daily_backtest on signals without a price, in float arithmetic

\* confidences a signal file holds, in hundredths as the JSON text has them
FloatConfidences == {90}

\* closing prices, in whole dollars
FloatPrices == {7, 100}

\* json.load of the decimal text c/100: the nearest float
ParsedConfidence(c) == FDiv(FromInt(c), FromInt(100))

\* a signal dict without "price", as generate_signals builds it
FloatSignal ==
    [ticker : Tickers, action : {BUY, SELL},
     confidence : {ParsedConfidence(c) : c \in FloatConfidences}]

\* the signals of the day in the order the two loops take them
FloatDays == UNION {[1..n -> FloatSignal] : n \in 1..MaxFloatEntries}

\* current_prices: every ticker has a closing price
FloatPriceMaps == [Tickers -> {FromInt(p) : p \in FloatPrices}]

\* Backtester(): base_investment and commission as floats
FloatBase == FromInt(BASE_INVESTMENT_PER_SIGNAL)

FloatCommission == FDiv(FromInt(DEFAULT_COMMISSION), FromInt(100))

\* _process_buy
FloatBuy(s, price) ==
    LET investment_amount == FMul(FloatBase, s.confidence)
        shares            == FDiv(investment_amount, price)
        cost              == FMul(investment_amount, FAdd(One, FloatCommission))
    IN  /\ f_total_invested' = FAdd(f_total_invested, cost)
        /\ f_portfolio' =
               [t \in DOMAIN f_portfolio \cup {s.ticker} |->
                   IF t = s.ticker
                   THEN [shares |-> shares, avg_price |-> price,
                         investment_amount |-> cost]
                   ELSE f_portfolio[t]]
        /\ f_trades' = Append(f_trades,
               [ticker |-> s.ticker, action |-> BUY, price |-> price,
                shares |-> shares, investment_amount |-> cost])
        /\ UNCHANGED f_total_proceeds

\* _process_sell
FloatSell(s, price) ==
    LET position == f_portfolio[s.ticker]
        proceeds == FMul(FMul(position.shares, price), FSub(One, FloatCommission))
    IN  /\ f_total_proceeds' = FAdd(f_total_proceeds, proceeds)
        /\ f_portfolio' = [t \in DOMAIN f_portfolio \ {s.ticker} |-> f_portfolio[t]]
        /\ f_trades' = Append(f_trades,
               [ticker |-> s.ticker, action |-> SELL, price |-> price,
                shares |-> position.shares, investment_amount |-> proceeds])
        /\ UNCHANGED f_total_invested

\* one pass of the inner loop: price falls back to current_prices, then
\* process_signal
FloatReplaySignal ==
    /\ f_pc = "running"
    /\ f_at < Len(f_day)
    /\ LET s     == f_day[f_at + 1]
           price == f_closing[s.ticker]
       IN  IF s.action = BUY /\ s.ticker \notin DOMAIN f_portfolio
           THEN FloatBuy(s, price)
           ELSE IF s.action = SELL /\ s.ticker \in DOMAIN f_portfolio
           THEN FloatSell(s, price)
           ELSE UNCHANGED <<f_portfolio, f_trades, f_total_invested, f_total_proceeds>>
    /\ f_at' = f_at + 1
    /\ UNCHANGED <<f_day, f_closing, f_result, f_pc>>
    /\ UNCHANGED <<smVars, ptVars, stVars, acVars, btVars, lgVars, rpVars, cyVars, scVars>>

\* sum += x over a dict; float addition commutes, so with at most two
\* entries the order of the dict does not matter
RECURSIVE FloatSum(_)
FloatSum(f) ==
    IF DOMAIN f = {} THEN Zero
    ELSE LET k == CHOOSE t \in DOMAIN f : TRUE
         IN  FAdd(FloatSum([t \in DOMAIN f \ {k} |-> f[t]]), f[k])

\* buy_trades = {t.ticker: t for t in self.trades if t.action == "buy"}
FloatBuyTrades(trs) ==
    [t \in {trs[i].ticker : i \in {j \in 1..Len(trs) : trs[j].action = BUY}} |->
        trs[CHOOSE i \in 1..Len(trs) :
                /\ trs[i].ticker = t /\ trs[i].action = BUY
                /\ \A j \in (i + 1)..Len(trs) :
                       ~(trs[j].ticker = t /\ trs[j].action = BUY)]]

\* pnl of a sell trade in finalize
FloatTradePnl(trs, i) ==
    FSub(trs[i].investment_amount, FloatBuyTrades(trs)[trs[i].ticker].investment_amount)

\* finalize(current_prices), without the percentages
FloatResult(pf, trs, invested, proceeds, closing) ==
    LET held         == DOMAIN pf \cap DOMAIN closing
        market_value == [t \in held |-> FMul(pf[t].shares, closing[t])]
        pnl          == [t \in held |-> FSub(market_value[t], pf[t].investment_amount)]
        total_value  == FAdd(proceeds, FloatSum(market_value))
        sells        == {i \in 1..Len(trs) :
                            /\ trs[i].action = SELL
                            /\ trs[i].ticker \in DOMAIN FloatBuyTrades(trs)}
        winning      == {i \in sells : Positive(FloatTradePnl(trs, i))}
    IN  [total_invested |-> invested,
         total_proceeds |-> proceeds,
         total_value |-> total_value,
         total_return_usd |-> FSub(total_value, invested),
         winning_trades |-> Cardinality(winning),
         losing_trades |-> Cardinality(sells \ winning),
         unrealized_pnl |-> FloatSum(pnl)]

\* result = backtester.finalize(current_prices)
FloatFinalize ==
    /\ f_pc = "running"
    /\ f_at = Len(f_day)
    /\ f_result' = Some(FloatResult(f_portfolio, f_trades, f_total_invested,
                                    f_total_proceeds, f_closing))
    /\ f_pc' = "returned"
    /\ UNCHANGED <<f_day, f_closing, f_at, f_portfolio, f_trades, f_total_invested,
                   f_total_proceeds>>
    /\ UNCHANGED <<smVars, ptVars, stVars, acVars, btVars, lgVars, rpVars, cyVars, scVars>>

\* no float replay under way
FloatIdle ==
    /\ f_day = <<>>
    /\ f_closing = EmptyDict
    /\ f_at = 0
    /\ f_portfolio = EmptyDict
    /\ f_trades = <<>>
    /\ f_total_invested = Zero
    /\ f_total_proceeds = Zero
    /\ f_result = None
    /\ f_pc = "idle"

\* the arguments of one run_daily_backtest call and its Backtester()
FloatInit ==
    /\ f_day \in FloatDays
    /\ f_closing \in FloatPriceMaps
    /\ f_at = 0
    /\ f_portfolio = EmptyDict
    /\ f_trades = <<>>
    /\ f_total_invested = Zero
    /\ f_total_proceeds = Zero
    /\ f_result = None
    /\ f_pc = "running"

\* ---- TradingPipeline: the pre-market and the realtime cycle

\* confidences of the analyses the LLM returns to a cycle
CycleConfidences == {70, 80, 85}

\* ratings of those analyses: one per TradingAction
CycleRatings == {"buy", "hold", "strong_sell"}

CycleAnalysis == [ticker : Tickers, signal : CycleRatings, confidence : CycleConfidences]

\* analysis_result.ticker_analyses of one cycle
CycleAnalysisLists == UNION {[1..n -> CycleAnalysis] : n \in 0..MaxAnalyses}

\* the parameters generate_signals declares (it takes no **kwargs)
GenerateSignalsParameters == {"analysis_result", "mode", "previous_signals"}

\* the keyword arguments the cycle of mode md passes to generate_signals
CycleKeywords(md) ==
    IF md = "pre_market"
    THEN {"analysis_result", "mode", "current_prices"}
    ELSE {"analysis_result", "mode", "previous_signals", "current_prices"}

\* a call with a keyword the function does not declare raises TypeError
\* before the body runs
RaisesTypeError(keywords) == ~(keywords \subseteq GenerateSignalsParameters)

\* get_latest_signals(): None on an empty directory, else the signals of the
\* entry whose name sorts last
LatestSignals(log) ==
    IF DOMAIN log = {} THEN None
    ELSE Some(log[CHOOSE n \in DOMAIN log : \A o \in DOMAIN log : o[2] <= n[2]].signals)

\* previous_signals of the cycle: only the realtime cycle loads them
CyclePrevious(md, log) == IF md = "realtime" THEN LatestSignals(log) ELSE None

\* the notifier calls that follow the position update
CycleNotifications(md, chs) ==
    IF md = "pre_market" THEN <<"send_premarket_report">>
    ELSE [i \in 1..Cardinality(DOMAIN GetActionableChanges(chs)) |->
             "send_realtime_signal"]

\* the cycle returned before the analysis: no news (the pre-market cycle
\* reports that); or generate_signals raised and the except clause reported it
CycleStops(md, analyses, news, events) ==
    /\ cycle_mode' = md
    /\ cycle_news' = news
    /\ cycle_analysis' = analyses
    /\ cycle_events' = events
    /\ cycle_count' = cycle_count + 1
    /\ UNCHANGED <<smVars, ptVars, stVars, acVars, btVars, lgVars, rpVars, flVars, scVars>>

\* steps 4 to 6 of a cycle that found news: generate_signals, save_signals,
\* update_positions, get_actionable_changes, then the notifier
CycleRuns(md, analyses, now, day) ==
    LET prev == CyclePrevious(md, signal_log)
        sigs == SignalsAfter(analyses, Len(analyses), md, prev)
        chs  == ChangesAfter(positions, sigs, day)
    IN  /\ WithinCount(positions, sigs)
        /\ cycle_mode' = md
        /\ cycle_news' = TRUE
        /\ cycle_analysis' = analyses
        /\ cycle_events' = <<"save_signals", "update_positions">>
                               \o CycleNotifications(md, chs)
        /\ cycle_count' = cycle_count + 1
        /\ analysis_result' = analyses
        /\ mode' = md
        /\ previous_signals' = prev
        /\ current_signals' = sigs
        /\ sm_pc' = "returned"
        /\ signal_log' = DictSet(signal_log, EntryName(now), SignalFile(sigs, now))
        /\ log_clock' = now
        /\ saved_path' = Some(EntryName(now))
        /\ signals' = sigs
        /\ clock' = day
        /\ positions' = PositionsAfter(positions, sigs, day)
        /\ changes' = chs
        /\ positions_file' = Snapshot(PositionsAfter(positions, sigs, day))
        /\ last_action' =
               [t \in DOMAIN last_action \cup DOMAIN sigs |->
                   IF t \in DOMAIN sigs THEN sigs[t].action ELSE last_action[t]]
        /\ run_length' =
               [t \in DOMAIN run_length \cup DOMAIN sigs |->
                   IF t \notin DOMAIN sigs THEN run_length[t]
                   ELSE IF t \in DOMAIN last_action
                           /\ last_action[t] = sigs[t].action
                        THEN run_length[t] + 1
                        ELSE 1]
        /\ ac_changes' = chs
        /\ actionable' = GetActionableChanges(chs)
        /\ ac_pc' = "returned"
        /\ UNCHANGED <<stVars, btVars, rpVars, flVars, scVars>>

\* one cycle of mode md whose generate_signals call passes `keywords`
Cycle(md, keywords) ==
    \E analyses \in CycleAnalysisLists, news \in BOOLEAN,
       now \in log_clock..MaxTick, day \in clock..MaxDay :
          IF ~news
          THEN /\ now = log_clock /\ day = clock /\ analyses = <<>>
               /\ CycleStops(md, analyses, FALSE,
                             IF md = "pre_market" THEN <<"send_error">> ELSE <<>>)
          ELSE IF RaisesTypeError(keywords)
          THEN /\ now = log_clock /\ day = clock
               /\ CycleStops(md, analyses, TRUE, <<"send_error">>)
          ELSE CycleRuns(md, analyses, now, day)

\* run_pre_market_analysis()
RunPreMarketAnalysis ==
    /\ cycle_count < MaxCycles
    /\ Cycle("pre_market", CycleKeywords("pre_market"))

\* run_realtime_analysis()
RunRealtimeAnalysis ==
    /\ cycle_count < MaxCycles
    /\ Cycle("realtime", CycleKeywords("realtime"))

\* the steps of run_realtime_analysis with generate_signals called by the
\* parameters it declares
RealtimeSteps ==
    /\ cycle_count < MaxCycles
    /\ Cycle("realtime", CycleKeywords("realtime") \cap GenerateSignalsParameters)

\* no cycle has run
CycleIdle ==
    /\ cycle_mode = "none"
    /\ cycle_news = FALSE
    /\ cycle_analysis = <<>>
    /\ cycle_events = <<>>
    /\ cycle_count = 0

\* ---- TradingScheduler
\*
\* Time is Eastern Time in whole minutes since a Monday 00:00; daylight-saving
\* switches fall in the small hours of a Sunday and are left out.

MinutesPerDay == 24 * 60

\* now_et.weekday(): 0 is Monday, 6 is Sunday
Weekday(now) == (now \div MinutesPerDay) % 7

\* the ET date of a time, as a day number
DateOf(now) == now \div MinutesPerDay

\* current_time.hour * 60 + current_time.minute
MinuteOfDay(now) == now % MinutesPerDay

MARKET_OPEN_ET == 9 * 60 + 30

MARKET_CLOSE_ET == 16 * 60

\* _get_default_config(): "09:00", 5 minutes, 20 minutes, 60 seconds
PRE_MARKET_ANALYSIS_TIME_ET == 9 * 60

SCHEDULE_WINDOW_MINUTES == 5

REALTIME_INTERVAL_MINUTES == 20

CHECK_INTERVAL_MINUTES == 1

\* post_market_time = dt_time(16, 10) and its window of 5 minutes
POST_MARKET_TIME_ET == 16 * 60 + 10

POST_MARKET_WINDOW_MINUTES == 5

\* `hour == 0 and minute < 5`: the minutes after midnight in which flags reset
MIDNIGHT_RESET_MINUTES == 5

\* is_market_day(dt_et)
IsMarketDay(now) == Weekday(now) < 5

\* is_market_open(dt_et)
IsMarketOpen(now) ==
    /\ IsMarketDay(now)
    /\ MARKET_OPEN_ET <= MinuteOfDay(now)
    /\ MinuteOfDay(now) < MARKET_CLOSE_ET

\* mutant: the done flag is not looked at
ShouldRunPreMarket_IgnoreDone(now, done) ==
    /\ IsMarketDay(now)
    /\ 0 <= MinuteOfDay(now) - PRE_MARKET_ANALYSIS_TIME_ET
    /\ MinuteOfDay(now) - PRE_MARKET_ANALYSIS_TIME_ET < SCHEDULE_WINDOW_MINUTES

\* should_run_pre_market_analysis(): the value returned
ShouldRunPreMarket(now, done) ==
    /\ IsMarketDay(now)
    /\ ~done
    /\ 0 <= MinuteOfDay(now) - PRE_MARKET_ANALYSIS_TIME_ET
    /\ MinuteOfDay(now) - PRE_MARKET_ANALYSIS_TIME_ET < SCHEDULE_WINDOW_MINUTES

\* should_run_pre_market_analysis(): pre_market_done_today after the call
PreMarketDoneAfterCheck(now, done) ==
    IF IsMarketDay(now) /\ done /\ MinuteOfDay(now) >= MARKET_OPEN_ET
    THEN FALSE ELSE done

\* mutant: the interval is not waited for
ShouldRunRealtime_NoInterval(now, last) == IsMarketOpen(now)

\* should_run_realtime_analysis()
ShouldRunRealtime(now, last) ==
    /\ IsMarketOpen(now)
    /\ IF last = None THEN TRUE
       ELSE now - last[1] >= REALTIME_INTERVAL_MINUTES

\* mutant: the done flag is never cleared
PostMarketDoneAfterCheck_NoReset(now, done) == done

\* should_run_post_market_analysis(): post_market_done_today after the call
PostMarketDoneAfterCheck(now, done) ==
    IF IsMarketDay(now) /\ done /\ MinuteOfDay(now) < MIDNIGHT_RESET_MINUTES
    THEN FALSE ELSE done

\* should_run_post_market_analysis(): the value returned
ShouldRunPostMarket(now, done) ==
    /\ IsMarketDay(now)
    /\ ~done
    /\ 0 <= MinuteOfDay(now) - POST_MARKET_TIME_ET
    /\ MinuteOfDay(now) - POST_MARKET_TIME_ET < POST_MARKET_WINDOW_MINUTES

\* the holiday notice of the loop: market_holiday_notified_today afterwards
HolidayNotifiedAfter(now, notified) ==
    IF IsMarketDay(now) THEN FALSE
    ELSE IF MinuteOfDay(now) < MIDNIGHT_RESET_MINUTES THEN FALSE
    ELSE TRUE

\* the market-open notice of the loop: market_open_notified_today afterwards
OpenNotifiedAfter(now, notified) ==
    IF ~IsMarketOpen(now) THEN FALSE
    ELSE IF ~notified /\ MinuteOfDay(now) - MARKET_OPEN_ET <= 5 THEN TRUE
    ELSE notified

CallbackOutcomes == {"returned", "raised"}

\* the callbacks of one ET date: how many were started, whether one raised
CallsOn(calls, now, outcome) ==
    IF calls.date = DateOf(now)
    THEN [calls EXCEPT !.count = @ + 1, !.raised = @ \/ outcome = "raised"]
    ELSE [date |-> DateOf(now), count |-> 1, raised |-> outcome = "raised"]

NoCalls == [date |-> -1, count |-> 0, raised |-> FALSE]

\* one pass of the loop of start(): the notices, the three checks with the
\* callbacks they start (each takes some minutes and returns or raises; the
\* run_ methods catch the exception), then time.sleep
SchedulerCheck ==
    /\ et_now < StartMinute + HorizonHours * 60
    /\ \E d1, d2, d3 \in 0..MaxCallbackMinutes, o1, o2, o3 \in CallbackOutcomes :
          LET run_pre  == ShouldRunPreMarket(et_now, pre_market_done_today)
              t1       == IF run_pre THEN et_now + d1 ELSE et_now
              run_rt   == ShouldRunRealtime(t1, last_realtime_run)
              t2       == IF run_rt THEN t1 + d2 ELSE t1
              run_post == ShouldRunPostMarket(t2, post_market_done_today)
              t3       == IF run_post THEN t2 + d3 ELSE t2
          IN  /\ IF run_pre THEN TRUE ELSE d1 = 0 /\ o1 = "returned"
              /\ IF run_rt THEN TRUE ELSE d2 = 0 /\ o2 = "returned"
              /\ IF run_post THEN TRUE ELSE d3 = 0 /\ o3 = "returned"
              /\ failures' = failures + Cardinality({i \in 1..3 :
                                 <<o1, o2, o3>>[i] = "raised"})
              /\ failures' <= MaxFailures
              /\ market_holiday_notified_today' =
                     HolidayNotifiedAfter(et_now, market_holiday_notified_today)
              /\ market_open_notified_today' =
                     OpenNotifiedAfter(et_now, market_open_notified_today)
              /\ pre_market_done_today' =
                     IF run_pre
                     THEN o1 = "returned"
                     ELSE PreMarketDoneAfterCheck(et_now, pre_market_done_today)
              /\ pre_calls' = IF run_pre THEN CallsOn(pre_calls, et_now, o1)
                              ELSE pre_calls
              /\ last_realtime_run' =
                     IF run_rt /\ o2 = "returned" THEN Some(t1) ELSE last_realtime_run
              /\ rt_call' = IF run_rt
                            THEN Some([started |-> t1, outcome |-> o2])
                            ELSE rt_call
              /\ rt_returned' = IF run_rt /\ o2 = "returned" THEN Some(t1)
                                ELSE rt_returned
              /\ post_market_done_today' =
                     IF run_post
                     THEN o3 = "returned"
                     ELSE PostMarketDoneAfterCheck(t2, post_market_done_today)
              /\ post_calls' = IF run_post THEN CallsOn(post_calls, t2, o3)
                               ELSE post_calls
              /\ et_now' = t3 + CHECK_INTERVAL_MINUTES
    /\ UNCHANGED <<smVars, ptVars, stVars, acVars, btVars, lgVars, rpVars, flVars, cyVars>>

\* no scheduler has been started
SchedulerIdle ==
    /\ et_now = 0
    /\ pre_market_done_today = FALSE
    /\ post_market_done_today = FALSE
    /\ last_realtime_run = None
    /\ market_holiday_notified_today = FALSE
    /\ market_open_notified_today = FALSE
    /\ pre_calls = NoCalls
    /\ post_calls = NoCalls
    /\ rt_call = None
    /\ rt_returned = None
    /\ failures = 0

\* TradingScheduler.__init__, then start() at StartMinute
SchedulerInit ==
    /\ et_now = StartMinute
    /\ pre_market_done_today = FALSE
    /\ post_market_done_today = FALSE
    /\ last_realtime_run = None
    /\ market_holiday_notified_today = FALSE
    /\ market_open_notified_today = FALSE
    /\ pre_calls = NoCalls
    /\ post_calls = NoCalls
    /\ rt_call = None
    /\ rt_returned = None
    /\ failures = 0

\* no run_daily_backtest call under way
ReplayIdle ==
    /\ replay_day = <<>>
    /\ current_prices = EmptyDict
    /\ replay_at = 0
    /\ replay_pc = "idle"

\* no get_actionable_changes call under way
ActionableIdle ==
    /\ ac_changes = EmptyDict
    /\ actionable = EmptyDict
    /\ ac_pc = "idle"

InitTracker ==
    /\ SignalsIdle /\ LogEmpty /\ TrackerInit /\ ActionableIdle /\ BacktesterIdle
    /\ ReplayIdle
    /\ FloatIdle
    /\ CycleIdle
    /\ SchedulerIdle

NextTracker == UpdatePositions

SpecTracker == InitTracker /\ [][NextTracker]_vars

\* records a positions file can hold that load_positions cannot turn into a
\* Position: a required field is missing, a date is not an ISO string
BadRecords ==
    {[ticker |-> t, action |-> BUY, entry_date |-> IsoFormat(0),
      last_updated |-> IsoFormat(0), current_confidence |-> 85,
      signal_count |-> 1] : t \in Tickers}
    \cup {[ModelDump(Position(t, BUY, 85, 0))
              EXCEPT !.last_updated = <<"text", 0>>] : t \in Tickers}

\* records a positions file can hold that load_positions accepts: the dumps
\* of save_positions, and a record written without signal_count
GoodRecords ==
    {ModelDump(Position(t, a, 85, 0)) : t \in Tickers, a \in {BUY, HOLD}}
    \cup {[ticker |-> t, action |-> SELL, entry_date |-> IsoFormat(0),
           entry_confidence |-> 65, last_updated |-> IsoFormat(0),
           current_confidence |-> 65] : t \in Tickers}

\* JSON documents found in the positions file at start-up
StoredDocuments ==
    {[position_count |-> 0]}
    \cup UNION {{[position_count |-> Cardinality(ts), positions |-> p] :
                    p \in {q \in [ts -> GoodRecords \cup BadRecords] :
                              \A t \in ts : q[t].ticker = t}} :
                ts \in SUBSET Tickers}

\* what the positions file can be when the process starts
StoredFiles == {NoFile, Truncated} \cup StoredDocuments

\* the process before it builds its PositionTracker
StorageInit ==
    /\ positions = EmptyDict
    /\ positions_file \in StoredFiles
    /\ signals = EmptyDict
    /\ changes = EmptyDict
    /\ clock = 0
    /\ last_action = EmptyDict
    /\ run_length = EmptyDict
    /\ pt_call = "none"
    /\ pt_outcome = "returned"

InitStorage ==
    /\ SignalsIdle /\ LogEmpty /\ StorageInit /\ ActionableIdle /\ BacktesterIdle
    /\ ReplayIdle
    /\ FloatIdle
    /\ CycleIdle
    /\ SchedulerIdle

NextStorage == Construct \/ UpdatePositionsOnDisk

SpecStorage == InitStorage /\ [][NextStorage]_vars

\* SignalManager.__init__, then the arguments of one generate_signals call
SignalsInit ==
    /\ analysis_result \in AnalysisLists
    /\ mode \in Modes
    /\ previous_signals \in PreviousSignalsArgs
    /\ current_signals = EmptyDict
    /\ sm_pc = "ready"

InitSignals ==
    /\ SignalsInit /\ LogEmpty /\ TrackerInit /\ ActionableIdle /\ BacktesterIdle
    /\ ReplayIdle
    /\ FloatIdle
    /\ CycleIdle
    /\ SchedulerIdle

NextSignals == GenerateSignals

SpecSignals == InitSignals /\ [][NextSignals]_vars

\* the argument of one get_actionable_changes call
ActionableInit ==
    /\ ac_changes \in ChangeMaps
    /\ actionable = EmptyDict
    /\ ac_pc = "ready"

InitActionable ==
    /\ SignalsIdle /\ LogEmpty /\ TrackerInit /\ ActionableInit /\ BacktesterIdle
    /\ ReplayIdle
    /\ FloatIdle
    /\ CycleIdle
    /\ SchedulerIdle

NextActionable == GetActionable

SpecActionable == InitActionable /\ [][NextActionable]_vars

InitBacktest ==
    /\ SignalsIdle /\ LogEmpty /\ TrackerInit /\ ActionableIdle /\ BacktesterInit
    /\ ReplayIdle
    /\ FloatIdle
    /\ CycleIdle
    /\ SchedulerIdle

NextBacktest == ProcessSignal \/ Finalize

SpecBacktest == InitBacktest /\ [][NextBacktest]_vars

\* a SignalManager on an empty directory, saving one signal map after another
InitLog ==
    /\ SignalsIdle /\ LogEmpty /\ TrackerInit /\ ActionableIdle /\ BacktesterIdle
    /\ ReplayIdle
    /\ FloatIdle
    /\ CycleIdle
    /\ SchedulerIdle

\* the arguments of one run_daily_backtest call and its Backtester()
ReplayInit ==
    /\ replay_day \in ReplayDays
    /\ current_prices \in CurrentPriceMaps
    /\ replay_at = 0
    /\ replay_pc = "running"

InitReplay ==
    /\ SignalsIdle /\ LogEmpty /\ TrackerInit /\ ActionableIdle /\ BacktesterIdle
    /\ ReplayInit
    /\ FloatIdle
    /\ CycleIdle
    /\ SchedulerIdle

NextReplay == ReplaySignal \/ ReplayFinalize

SpecReplay == InitReplay /\ [][NextReplay]_vars

InitFloat ==
    /\ SignalsIdle /\ LogEmpty /\ TrackerInit /\ ActionableIdle /\ BacktesterIdle
    /\ ReplayIdle
    /\ FloatInit
    /\ CycleIdle
    /\ SchedulerIdle

NextFloat == FloatReplaySignal \/ FloatFinalize

SpecFloat == InitFloat /\ [][NextFloat]_vars

\* a TradingPipeline on empty directories, running one cycle after another
InitCycle ==
    /\ SignalsIdle /\ LogEmpty /\ TrackerInit /\ ActionableIdle /\ BacktesterIdle
    /\ ReplayIdle
    /\ FloatIdle
    /\ CycleIdle
    /\ SchedulerIdle

NextCycle == RunPreMarketAnalysis \/ RunRealtimeAnalysis

SpecCycle == InitCycle /\ [][NextCycle]_vars

NextRealtime == RealtimeSteps

SpecRealtime == InitCycle /\ [][NextRealtime]_vars

\* a scheduler started at StartMinute and left running
InitScheduler ==
    /\ SignalsIdle /\ LogEmpty /\ TrackerInit /\ ActionableIdle /\ BacktesterIdle
    /\ ReplayIdle
    /\ FloatIdle
    /\ CycleIdle
    /\ SchedulerInit

NextScheduler == SchedulerCheck

SpecScheduler == InitScheduler /\ [][NextScheduler]_vars

NextLog == SaveSignals

SpecLog == InitLog /\ [][NextLog]_vars

----------------------------------------------------------------------------
\* Claims about update_positions (checked under SpecTracker, whose every step
\* is one update_positions call: the unprimed positions are those before the
\* call, signals' is its argument, positions' and changes' are its results)

\* C7: a signal whose action equals the stored Position's action emits no
\* change for the ticker, increments signal_count by exactly 1, sets
\* current_confidence to the signal's confidence and leaves action, entry_date
\* and entry_confidence unchanged.
C7_SameActionSilentUpdate ==
    [][ \A t \in DOMAIN signals' \cap DOMAIN positions :
            positions[t].action = signals'[t].action =>
                /\ t \notin DOMAIN changes'
                /\ positions'[t].signal_count = positions[t].signal_count + 1
                /\ positions'[t].current_confidence = signals'[t].confidence
                /\ positions'[t].action = positions[t].action
                /\ positions'[t].entry_date = positions[t].entry_date
                /\ positions'[t].entry_confidence = positions[t].entry_confidence
      ]_vars

\* a Position confirmed a second time, at another confidence and on a later
\* day than its entry, with no change event
C7_Witness ==
    \E t \in DOMAIN signals \cap DOMAIN positions :
        /\ t \notin DOMAIN changes
        /\ positions[t].signal_count = 2
        /\ positions[t].action = signals[t].action
        /\ positions[t].current_confidence = signals[t].confidence
        /\ positions[t].current_confidence # positions[t].entry_confidence
        /\ positions[t].entry_date < positions[t].last_updated

\* C8: a signal whose action differs from the stored Position's action emits
\* one position_changed event with old_action and old_confidence taken from the
\* stored Position (its current_confidence) and new_action and new_confidence
\* from the signal, and resets the Position to the new action with
\* signal_count = 1 and entry_confidence = current_confidence = the signal's.
C8_ChangedActionEvent ==
    [][ \A t \in DOMAIN signals' \cap DOMAIN positions :
            positions[t].action # signals'[t].action =>
                /\ t \in DOMAIN changes'
                /\ changes'[t].ticker = t
                /\ changes'[t].change_type = "position_changed"
                /\ changes'[t].old_action = positions[t].action
                /\ changes'[t].new_action = signals'[t].action
                /\ changes'[t].old_confidence = positions[t].current_confidence
                /\ changes'[t].new_confidence = signals'[t].confidence
                /\ positions'[t].action = signals'[t].action
                /\ positions'[t].signal_count = 1
                /\ positions'[t].entry_confidence = signals'[t].confidence
                /\ positions'[t].current_confidence = signals'[t].confidence
      ]_vars

\* a Buy held for a day turned into a Sell at another confidence
C8_Witness ==
    \E t \in DOMAIN changes :
        /\ changes[t].change_type = "position_changed"
        /\ changes[t].old_action = BUY
        /\ changes[t].new_action = SELL
        /\ changes[t].old_confidence # changes[t].new_confidence
        /\ changes[t].days_held = 1
        /\ positions[t].action = SELL
        /\ positions[t].signal_count = 1

\* C9: a signal for a ticker with no stored Position creates a Position with
\* the signal's action (Buy, Sell or Hold), signal_count = 1 and
\* entry_confidence = current_confidence = the signal's confidence, and emits
\* one new_position event with old_action and old_confidence absent.
C9_FirstSignalCreatesPosition ==
    [][ \A t \in DOMAIN signals' \ DOMAIN positions :
            /\ t \in DOMAIN positions'
            /\ positions'[t].ticker = t
            /\ positions'[t].action = signals'[t].action
            /\ positions'[t].signal_count = 1
            /\ positions'[t].entry_confidence = signals'[t].confidence
            /\ positions'[t].current_confidence = signals'[t].confidence
            /\ t \in DOMAIN changes'
            /\ changes'[t].change_type = "new_position"
            /\ changes'[t].new_action = signals'[t].action
            /\ changes'[t].new_confidence = signals'[t].confidence
            /\ changes'[t].old_action = NoAction
            /\ changes'[t].old_confidence = NoConfidence
      ]_vars

\* a first signal with action Hold created a Hold Position, while another
\* ticker already had one
C9_Witness ==
    \E t \in DOMAIN changes :
        /\ changes[t].change_type = "new_position"
        /\ changes[t].new_action = HOLD
        /\ positions[t].action = HOLD
        /\ positions[t].signal_count = 1
        /\ \E u \in DOMAIN positions : u # t /\ u \notin DOMAIN changes

\* C10: the tracker holds one Position for each ticker that has appeared in a
\* signal map, whose action is the action of the latest signal received for
\* the ticker; no Position is ever removed, and the Positions of tickers absent
\* from the current signal map are unchanged by the call.
C10_OnePositionPerSeenTicker ==
    /\ [](/\ DOMAIN positions = DOMAIN last_action
          /\ \A t \in DOMAIN positions :
                 /\ positions[t].ticker = t
                 /\ positions[t].action = last_action[t])
    /\ [][ /\ DOMAIN positions \subseteq DOMAIN positions'
           /\ \A t \in DOMAIN positions \ DOMAIN signals' :
                  positions'[t] = positions[t]
       ]_vars

\* a Buy closed to Hold is still tracked, beside a Position that the latest
\* call did not touch
C10_Witness ==
    \E t \in DOMAIN changes, u \in DOMAIN positions :
        /\ changes[t].change_type = "position_changed"
        /\ changes[t].old_action = BUY
        /\ changes[t].new_action = HOLD
        /\ t \in DOMAIN positions
        /\ positions[t].action = HOLD
        /\ u \notin DOMAIN signals
        /\ positions[u].action = SELL

\* C11: every Position has signal_count >= 1, and signal_count is the number
\* of consecutive most recent signals of its ticker that carried the
\* Position's current action: it restarts at 1 on every action change and
\* grows only on same-action signals.
C11_SignalCountIsRunLength ==
    /\ DOMAIN run_length = DOMAIN positions
    /\ \A t \in DOMAIN positions :
           /\ positions[t].signal_count >= 1
           /\ positions[t].signal_count = run_length[t]

\* a Position on its first signal after an action change, and another one
\* confirmed twice
C11_Witness ==
    \E t \in DOMAIN changes, u \in DOMAIN positions :
        /\ changes[t].change_type = "position_changed"
        /\ positions[t].signal_count = 1
        /\ run_length[t] = 1
        /\ u # t
        /\ positions[u].signal_count = 2
        /\ run_length[u] = 2

----------------------------------------------------------------------------
\* Claims about get_actionable_changes (checked under SpecActionable: after
\* the call ac_changes is its argument and actionable the map it returned)

\* C12: get_actionable_changes keeps a new_position change if and only if its
\* new_action is Buy or Sell, and keeps it as it is: a brand-new Hold position
\* is never in the actionable map, a brand-new Buy or Sell always is.
C12_NewPositionActionableIffBuySell ==
    ac_pc = "returned" =>
        \A t \in DOMAIN ac_changes :
            ac_changes[t].change_type = "new_position" =>
                /\ t \in DOMAIN actionable <=> ac_changes[t].new_action \in {BUY, SELL}
                /\ ac_changes[t].new_action = HOLD => t \notin DOMAIN actionable
                /\ t \in DOMAIN actionable => actionable[t] = ac_changes[t]

\* one call that dropped a new Hold position and kept a new Sell position
C12_Witness ==
    /\ ac_pc = "returned"
    /\ \E t \in DOMAIN ac_changes, u \in DOMAIN ac_changes :
           /\ ac_changes[t].change_type = "new_position"
           /\ ac_changes[t].new_action = HOLD
           /\ t \notin DOMAIN actionable
           /\ ac_changes[u].change_type = "new_position"
           /\ ac_changes[u].new_action = SELL
           /\ u \in DOMAIN actionable
           /\ actionable[u].change_type = "new_position"

----------------------------------------------------------------------------
\* Claims about process_signal (checked under SpecBacktest: a step that leaves
\* bt_pc at "running" is one process_signal call, bt_call' holds its ticker
\* and action, the unprimed variables are the Backtester before the call and
\* the primed ones the Backtester after it)

\* the step is process_signal(ticker, action, ...)
SignalCall(ticker, action) ==
    /\ bt_pc' = "running"
    /\ bt_call' = Some([ticker |-> ticker, action |-> action])

\* the call left the portfolio, the trade list and both totals as they were
BacktesterUnchanged ==
    /\ portfolio' = portfolio
    /\ trades' = trades
    /\ total_invested' = total_invested
    /\ total_proceeds' = total_proceeds

TradeCount(ticker, action) ==
    Cardinality({i \in 1..Len(trades) :
                    trades[i].ticker = ticker /\ trades[i].action = action})

\* C14: at most one lot per ticker is open at any time (the Buy trades of a
\* ticker outnumber its Sell trades by one when it has an open lot and by none
\* otherwise), and a Buy signal for a ticker that has an open lot returns no
\* Trade and leaves the portfolio, the trade list, total_invested and
\* total_proceeds unchanged.
C14_BuyOnOpenLotIsNoOp ==
    /\ [](\A t \in Tickers :
              TradeCount(t, BUY) - TradeCount(t, SELL) =
                  IF t \in DOMAIN portfolio THEN 1 ELSE 0)
    /\ [][ \A t \in DOMAIN portfolio :
               SignalCall(t, BUY) =>
                   /\ bt_returned' = None
                   /\ bt_outcome' = "returned"
                   /\ BacktesterUnchanged
       ]_vars

\* a Buy signal just met the ticker's open lot, whose only trade is still the
\* Buy that opened it
C14_Witness ==
    /\ bt_pc = "running"
    /\ \E t \in DOMAIN portfolio :
           /\ bt_call = Some([ticker |-> t, action |-> BUY])
           /\ bt_returned = None
           /\ TradeCount(t, BUY) = 1
           /\ TradeCount(t, SELL) = 0
           /\ portfolio[t].investment_amount > 0

\* C15: a Sell signal for a ticker with an open lot closes it: the lot is
\* removed, one Sell Trade with the lot's shares is appended, total_proceeds
\* grows by the proceeds (shares x price less the commission), the realized
\* P&L is the proceeds minus the lot's recorded investment, and total_invested
\* is unchanged.
C15_SellClosesLot ==
    [][ \A t \in DOMAIN portfolio :
           SignalCall(t, SELL) =>
               /\ t \notin DOMAIN portfolio'
               /\ bt_outcome' = "returned"
               /\ bt_returned' # None
               /\ trades' = Append(trades, bt_returned'[1])
               /\ bt_returned'[1].ticker = t
               /\ bt_returned'[1].action = SELL
               /\ bt_returned'[1].shares = portfolio[t].shares
               /\ bt_returned'[1].investment_amount * 100 =
                      portfolio[t].shares * bt_returned'[1].price * (100 - commission)
               /\ total_proceeds' = total_proceeds + bt_returned'[1].investment_amount
               /\ bt_pnl' = Some(bt_returned'[1].investment_amount
                                     - portfolio[t].investment_amount)
               /\ total_invested' = total_invested
               /\ \A u \in DOMAIN portfolio \ {t} :
                      u \in DOMAIN portfolio' /\ portfolio'[u] = portfolio[u]
      ]_vars

\* a Sell signal met an open lot and raised instead of closing it
C15_Witness ==
    /\ bt_pc = "running"
    /\ bt_outcome = "raised"
    /\ \E t \in DOMAIN portfolio :
           /\ bt_call = Some([ticker |-> t, action |-> SELL])
           /\ portfolio[t].investment_amount = 0
           /\ TradeCount(t, SELL) = 0

\* C16: a Buy signal for a ticker with no open lot opens a lot whose
\* investment is base_investment x the signal's confidence and whose shares
\* are that investment / the signal's price; with zero commission the lot's
\* recorded investment is exactly that investment and total_invested grows by
\* it.  With base 1000, a Buy at 100 with confidence 1.0 records an investment
\* of 1000 and 10 shares, and a Sell at 110 then yields proceeds of 1100 and a
\* realized P&L of 100.
C16_BuyOpensSizedLot ==
    [][ \A t \in Tickers \ DOMAIN portfolio :
           SignalCall(t, BUY) =>
               /\ bt_returned' # None
               /\ trades' = Append(trades, bt_returned'[1])
               /\ bt_returned'[1].ticker = t
               /\ bt_returned'[1].action = BUY
               /\ t \in DOMAIN portfolio'
               /\ LET lot == portfolio'[t]
                      trade == bt_returned'[1]
                      investment == base_investment * trade.signal_confidence
                  IN  /\ lot.entry_confidence = trade.signal_confidence
                      /\ lot.avg_price = trade.price
                      /\ lot.shares * trade.price = investment
                      /\ trade.shares = lot.shares
                      /\ lot.investment_amount * 100 = investment * (100 + commission)
                      /\ trade.investment_amount = lot.investment_amount
                      /\ total_invested' = total_invested + lot.investment_amount
                      /\ commission = 0 =>
                             /\ lot.investment_amount = investment
                             /\ total_invested' = total_invested + investment
                      /\ (base_investment = 1000 /\ commission = 0
                          /\ trade.price = 100 /\ trade.signal_confidence = 100) =>
                             /\ lot.investment_amount = 100000
                             /\ lot.shares = 1000
                             /\ Proceeds(lot.shares, 110, commission) = 110000
                             /\ Proceeds(lot.shares, 110, commission)
                                    - lot.investment_amount = 10000
               /\ total_proceeds' = total_proceeds
      ]_vars

\* the round trip of the example: base 1000, no commission, Buy at 100 with
\* confidence 1.0, then Sell at 110: proceeds 1100.00, realized P&L 100.00
C16_Witness ==
    /\ base_investment = 1000
    /\ commission = 0
    /\ Len(trades) = 2
    /\ trades[1].action = BUY
    /\ trades[1].price = 100
    /\ trades[1].signal_confidence = 100
    /\ trades[1].investment_amount = 100000
    /\ trades[1].shares = 1000
    /\ trades[2].action = SELL
    /\ trades[2].ticker = trades[1].ticker
    /\ trades[2].price = 110
    /\ trades[2].investment_amount = 110000
    /\ total_invested = 100000
    /\ total_proceeds = 110000
    /\ bt_pnl = Some(10000)

\* C17: a Hold signal, and a Sell signal for a ticker with no open lot, return
\* no Trade and leave the portfolio, the trade list, total_invested and
\* total_proceeds unchanged.
C17_HoldAndIdleSellAreNoOps ==
    [][ \A t \in Tickers :
           (SignalCall(t, HOLD) \/ (SignalCall(t, SELL) /\ t \notin DOMAIN portfolio)) =>
               /\ bt_returned' = None
               /\ bt_outcome' = "returned"
               /\ BacktesterUnchanged
      ]_vars

\* a Sell signal for a ticker that never traded, while the other ticker has an
\* open lot
C17_Witness ==
    /\ bt_pc = "running"
    /\ \E t \in Tickers \ DOMAIN portfolio :
           /\ bt_call = Some([ticker |-> t, action |-> SELL])
           /\ bt_returned = None
           /\ TradeCount(t, BUY) = 0
           /\ DOMAIN portfolio # {}
           /\ total_invested > 0

----------------------------------------------------------------------------
\* Claims about finalize (checked under SpecBacktest: in a state with bt_pc =
\* "finalized" and bt_outcome = "returned", bt_result holds the BacktestResult
\* of finalize(closing_prices) on the Backtester the other variables show)

Finalized == bt_pc = "finalized" /\ bt_outcome = "returned"

\* the open lots that finalize was given a closing price for
PricedLots == DOMAIN portfolio \cap DOMAIN closing_prices

\* C18: finalize reports total_value = total_proceeds + the sum of shares x
\* closing price over the open lots (those it has a closing price for),
\* total_return_usd = total_value - total_invested, and total_return_pct =
\* total_return_usd / total_invested x 100 (the fraction pct[1] / pct[2]),
\* which is 0 when nothing was invested.
C18_TotalsOfFinalize ==
    Finalized =>
        LET result == bt_result[1]
            pct == result.total_return_pct
        IN  /\ result.total_proceeds = total_proceeds
            /\ result.total_invested = total_invested
            /\ result.total_value =
                   total_proceeds
                   + SumValues([t \in PricedLots |->
                                   portfolio[t].shares * closing_prices[t]])
            /\ result.total_return_usd = result.total_value - total_invested
            /\ pct[2] > 0
            /\ total_invested = 0 => pct[1] = 0
            /\ total_invested # 0 =>
                   /\ total_invested % pct[2] = 0
                   /\ pct[1] * (total_invested \div pct[2]) =
                          result.total_return_usd * 100

\* a replay with one lot sold and one lot still open, which has a closing
\* price, that ends with a gain
C18_Witness ==
    /\ Finalized
    /\ total_proceeds > 0
    /\ Cardinality(PricedLots) = 1
    /\ \A t \in PricedLots : portfolio[t].shares > 0
    /\ bt_result[1].total_value > total_proceeds
    /\ bt_result[1].total_return_usd > 0
    /\ bt_result[1].total_return_pct[1] > 0

\* C19: finalize values every still-open lot: the key set of
\* positions_at_close is the set of tickers that have an open lot when
\* finalize is called, and unrealized_pnl is the sum over all of them of
\* market_value - investment_amount.
C19_EveryOpenLotValued ==
    Finalized =>
        LET result == bt_result[1]
        IN  /\ DOMAIN result.positions_at_close = DOMAIN portfolio
            /\ result.unrealized_pnl =
                   SumValues([t \in DOMAIN portfolio |->
                                 result.positions_at_close[t].market_value
                                 - portfolio[t].investment_amount])

\* finalize returned a result that leaves out an open lot bought for 500.00
C19_Witness ==
    /\ Finalized
    /\ \E t \in DOMAIN portfolio :
           /\ portfolio[t].investment_amount = 50000
           /\ t \notin DOMAIN closing_prices
           /\ t \notin DOMAIN bt_result[1].positions_at_close
           /\ bt_result[1].unrealized_pnl = 0
           /\ bt_result[1].total_return_usd = 0 - 50000

\* the Buy whose lot the Sell at index i closed: the ticker's latest Buy
\* before it
BuyBefore(i) ==
    Last({j \in 1..(i - 1) :
             trades[j].action = BUY /\ trades[j].ticker = trades[i].ticker})

\* proceeds of the Sell at index i minus the investment of the lot it closed
ClosedLotPnl(i) ==
    trades[i].investment_amount - trades[BuyBefore(i)].investment_amount

SellTrades == {i \in 1..Len(trades) : trades[i].action = SELL}

\* C20: for every Sell trade, the P&L finalize uses to count it as a win or a
\* loss is the Sell's proceeds minus the investment of the ticker's most
\* recent Buy recorded before it, so winning_trades and losing_trades count
\* the Sells whose lot closed with a gain and without one, for every sequence
\* of signals, a ticker bought, sold and bought again included.
C20_SellPairedWithItsBuy ==
    Finalized =>
        /\ \A i \in SellTrades : PairedPnl(trades, i) = ClosedLotPnl(i)
        /\ bt_result[1].winning_trades =
               Cardinality({i \in SellTrades : ClosedLotPnl(i) > 0})
        /\ bt_result[1].losing_trades =
               Cardinality({i \in SellTrades : ~(ClosedLotPnl(i) > 0)})

\* a lot bought for 500.00 and sold for 550.00 is counted as a loss after the
\* ticker is bought again for 1000.00
C20_Witness ==
    /\ Finalized
    /\ commission = 0
    /\ Len(trades) = 3
    /\ trades[1].action = BUY /\ trades[1].investment_amount = 50000
    /\ trades[2].action = SELL /\ trades[2].investment_amount = 55000
    /\ trades[3].action = BUY /\ trades[3].investment_amount = 100000
    /\ trades[2].ticker = trades[1].ticker
    /\ trades[3].ticker = trades[1].ticker
    /\ bt_result[1].winning_trades = 0
    /\ bt_result[1].losing_trades = 1
    /\ bt_result[1].worst_trade[1].pnl = 0 - 45000

\* C21: finalize's win_rate is exactly 0 when no trade has closed, and
\* otherwise it is winning_trades / (winning_trades + losing_trades) x 100
\* (the fraction rate[1] / rate[2]) and lies in [0, 100]; winning_trades +
\* losing_trades is the number of Sell trades executed.
C21_WinRate ==
    Finalized =>
        LET result == bt_result[1]
            rate == result.win_rate
            closed == result.winning_trades + result.losing_trades
        IN  /\ closed = Cardinality(SellTrades)
            /\ rate[2] > 0
            /\ closed = 0 => rate[1] = 0
            /\ closed # 0 => rate[1] * closed = result.winning_trades * 100 * rate[2]
            /\ 0 <= rate[1]
            /\ rate[1] <= 100 * rate[2]

\* a replay whose only closed lot was a gain, with another lot still open:
\* the win rate is 100
C21_Witness ==
    /\ Finalized
    /\ Cardinality(SellTrades) = 1
    /\ Len(trades) = 3
    /\ bt_result[1].winning_trades = 1
    /\ bt_result[1].losing_trades = 0
    /\ bt_result[1].win_rate = <<100, 1>>
    /\ DOMAIN portfolio # {}

----------------------------------------------------------------------------
\* Claims about the snapshot file (checked under SpecStorage: the process
\* starts on any positions file, builds its tracker, calls update_positions on
\* a disk that can fail, and may rebuild the tracker at any time)

\* the latest call was an update_positions that came back / that raised
UpdateReturned == pt_call = "update_positions" /\ pt_outcome = "returned"
UpdateRaised == pt_call = "update_positions" /\ pt_outcome = "raised"

\* the latest call built a tracker
Constructed == pt_call = "__init__"

\* the four compared fields of a Position agree with those of another
\* Position or of a stored record
SameHolding(a, b) ==
    /\ a.action = b.action
    /\ a.entry_confidence = b.entry_confidence
    /\ a.current_confidence = b.current_confidence
    /\ a.signal_count = b.signal_count

\* C22: a cycle that fails at any step, including a failure while writing the
\* position snapshot, leaves what is persisted and the in-memory Position map
\* exactly as they were before the cycle started; here for the cycle's
\* position step: an update_positions call that raises leaves the snapshot
\* file and self.positions as they were before the call.
C22_FailedStepChangesNothing ==
    [][(pt_call' = "update_positions" /\ pt_outcome' = "raised") =>
           /\ positions' = positions
           /\ positions_file' = positions_file]_vars

\* an update that raised in the save, after it had opened a position that the
\* emptied file no longer backs
C22_Witness ==
    /\ UpdateRaised
    /\ positions_file = Truncated
    /\ \E t \in DOMAIN positions : positions[t].last_updated = 1

\* C23: after every update_positions call that returns (saving enabled) the
\* snapshot file holds exactly the in-memory Position map: the same tickers
\* with the same action, confidences and signal_count, and position_count is
\* the number of Positions.
C23_SnapshotIsPositionMap ==
    UpdateReturned =>
        /\ positions_file.position_count = Cardinality(DOMAIN positions)
        /\ DOMAIN positions_file.positions = DOMAIN positions
        /\ \A t \in DOMAIN positions :
               SameHolding(positions_file.positions[t], positions[t])

\* a returned update that wrote two Positions, one of them on Hold and one
\* confirmed twice
C23_Witness ==
    /\ UpdateReturned
    /\ positions_file.position_count = 2
    /\ \E t, u \in DOMAIN positions :
           /\ positions[t].action = HOLD
           /\ positions[u].signal_count = 2
           /\ positions_file.positions[u].signal_count = 2

ValidFile ==
    /\ positions_file # NoFile
    /\ positions_file # Truncated
    /\ \A t \in DOMAIN PositionsDict(positions_file) :
           ValidRecord(PositionsDict(positions_file)[t])

\* C25: building a PositionTracker never fails because of the stored
\* snapshot: on a missing file, a file that is not JSON or a file with any
\* invalid Position record the tracker starts with an empty Position map,
\* never a partly loaded one; on a valid file it starts with the full stored
\* map.
C25_ConstructNeverFails ==
    Constructed =>
        /\ pt_outcome = "returned"
        /\ ~ValidFile => positions = EmptyDict
        /\ ValidFile =>
               /\ DOMAIN positions = DOMAIN PositionsDict(positions_file)
               /\ \A t \in DOMAIN positions :
                      LET pos_data == PositionsDict(positions_file)[t]
                      IN  /\ positions[t].ticker = pos_data.ticker
                          /\ positions[t].action = pos_data.action
                          /\ positions[t].entry_confidence =
                                 pos_data.entry_confidence
                          /\ positions[t].current_confidence =
                                 pos_data.current_confidence
                          /\ "signal_count" \in DOMAIN pos_data =>
                                 positions[t].signal_count =
                                     pos_data.signal_count

\* a tracker built on a file that holds one valid and one invalid record
C25_Witness ==
    /\ Constructed
    /\ positions = EmptyDict
    /\ positions_file # NoFile
    /\ positions_file # Truncated
    /\ \E t, u \in DOMAIN PositionsDict(positions_file) :
           /\ ValidRecord(PositionsDict(positions_file)[t])
           /\ ~ValidRecord(PositionsDict(positions_file)[u])
----------------------------------------------------------------------------
\* Claims about save_signals (checked under SpecLog, whose every step is one
\* save_signals call: the unprimed signal_log is the log before the call)

\* C26: every save of a signal map creates a new signal log entry, and no
\* entry that exists is overwritten or modified, whatever the timing of the
\* saves.
C26_LogIsAppendOnly ==
    [][/\ saved_path'[1] \notin DOMAIN signal_log
       /\ DOMAIN signal_log' = DOMAIN signal_log \cup {saved_path'[1]}
       /\ \A e \in DOMAIN signal_log : signal_log'[e] = signal_log[e]]_vars

\* two saves in different seconds: two entries, the later one just written
C26_Witness ==
    /\ Cardinality(DOMAIN signal_log) = 2
    /\ saved_path = Some(EntryName(log_clock))
    /\ \E e \in DOMAIN signal_log :
           /\ e # saved_path[1]
           /\ signal_log[e].generated_at < log_clock
           /\ signal_log[e].signal_count = 2
----------------------------------------------------------------------------
\* Claims about run_daily_backtest (checked under SpecReplay: one call on a
\* day of signal files and a map of closing prices)

\* the signals of the day in processing order
ReplayQueue == Flatten(replay_day, Len(replay_day))

\* the step takes the next signal of the day
TakesSignal == replay_pc = "running" /\ replay_at' = replay_at + 1

\* the newest Trade after the step
NewTrade == trades'[Len(trades')]

\* C28: in the daily replay a signal without an explicit price is processed
\* at the closing price of its ticker (a Buy on a free ticker and a Sell on an
\* open lot trade at that price), and a signal whose ticker has neither an
\* explicit price nor a closing price is skipped: no Trade, no change of the
\* backtester's state, and the replay goes on with the next signal.
C28_PriceFallbackAndSkip ==
    [][TakesSignal =>
           LET signal == ReplayQueue[replay_at + 1]
               t == signal.ticker
           IN  /\ (signal.price = None /\ t \in DOMAIN current_prices) =>
                      /\ (signal.action = BUY /\ t \notin DOMAIN portfolio) =>
                             /\ Len(trades') = Len(trades) + 1
                             /\ NewTrade.ticker = t
                             /\ NewTrade.action = BUY
                             /\ NewTrade.price = current_prices[t]
                             /\ t \in DOMAIN portfolio'
                             /\ portfolio'[t].avg_price = current_prices[t]
                      /\ (signal.action = SELL /\ t \in DOMAIN portfolio) =>
                             /\ Len(trades') = Len(trades) + 1
                             /\ NewTrade.ticker = t
                             /\ NewTrade.action = SELL
                             /\ NewTrade.price = current_prices[t]
                             /\ t \notin DOMAIN portfolio'
               /\ (signal.price = None /\ t \notin DOMAIN current_prices) =>
                      /\ trades' = trades
                      /\ portfolio' = portfolio
                      /\ total_invested' = total_invested
                      /\ total_proceeds' = total_proceeds
                      /\ replay_pc' = "running"]_vars

\* a finished replay whose first file held a signal without any price and,
\* after it, a Buy without explicit price that traded at the closing price
C28_Witness ==
    /\ replay_pc = "returned"
    /\ Len(replay_day) >= 1
    /\ Len(replay_day[1]) = 2
    /\ replay_day[1][1].price = None
    /\ replay_day[1][1].ticker \notin DOMAIN current_prices
    /\ replay_day[1][2].price = None
    /\ replay_day[1][2].action = BUY
    /\ Len(trades) >= 1
    /\ trades[1].ticker = replay_day[1][2].ticker
    /\ trades[1].price = current_prices[trades[1].ticker]
    /\ \A i \in 1..Len(trades) : trades[i].ticker # replay_day[1][1].ticker

\* the Backtester after the first n signals of the queue, from Backtester()
RECURSIVE ReplayedState(_, _, _)
ReplayedState(queue, n, closing) ==
    IF n = 0 THEN BacktesterState(EmptyDict, <<>>, 0, 0)
    ELSE ReplayedSignalAfter(ReplayedState(queue, n - 1, closing), queue[n],
                             closing)

\* the BacktestResult of a whole run on a day
ReplayResult(day, closing) ==
    LET queue == Flatten(day, Len(day))
        st == ReplayedState(queue, Len(queue), closing)
    IN  FinalizeResult(st.portfolio, st.trades, st.total_invested,
                       st.total_proceeds, closing)

\* the fields of a BacktestResult that the claim compares
ResultView(result) ==
    [total_invested |-> result.total_invested,
     total_proceeds |-> result.total_proceeds,
     total_value |-> result.total_value,
     total_return_pct |-> result.total_return_pct,
     total_return_usd |-> result.total_return_usd,
     winning_trades |-> result.winning_trades,
     losing_trades |-> result.losing_trades,
     win_rate |-> result.win_rate,
     best_trade |-> result.best_trade,
     worst_trade |-> result.worst_trade,
     positions_at_close |-> result.positions_at_close,
     unrealized_pnl |-> result.unrealized_pnl]

\* the day with the signals of file e taken in the order p
Reordered(day, e, p) ==
    [day EXCEPT ![e] = [i \in 1..Len(day[e]) |-> day[e][p[i]]]]

\* C29: the BacktestResult (totals, win/loss counts, win_rate, best_trade,
\* worst_trade, positions_at_close) is the same for every order in which the
\* tickers of a signal log entry are processed.
C29_OrderIndependent ==
    (replay_pc = "returned" /\ replay_day # <<>>) =>
        \A e \in 1..Len(replay_day) :
            \A p \in Permutations(1..Len(replay_day[e])) :
                ResultView(ReplayResult(Reordered(replay_day, e, p),
                                        current_prices))
                    = ResultView(bt_result[1])

\* two lots bought in the first file and sold in the second at the same
\* profit: best_trade names the ticker that the second file lists first
C29_Witness ==
    /\ replay_pc = "returned"
    /\ Len(replay_day) = 2
    /\ Len(trades) = 4
    /\ bt_result[1].winning_trades = 2
    /\ bt_result[1].best_trade # None
    /\ bt_result[1].best_trade[1].ticker = replay_day[2][1].ticker
    /\ bt_result[1].best_trade[1].pnl = 25000
----------------------------------------------------------------------------
\* Claims about the Backtester's failures (checked under SpecBacktest)

\* C30: the Backtester does not fail on any confidence value: whatever the
\* confidence of the Buy, zero included, and whatever the positive price, a
\* Sell of the bought ticker returns and a finalize on the open lot returns.
C30_NoFailureOnAnyConfidence ==
    /\ (bt_pc = "running" /\ bt_call # None /\ bt_call[1].action = SELL) =>
           bt_outcome = "returned"
    /\ bt_pc = "finalized" => bt_outcome = "returned"

\* a finalize that raised on the only lot, bought at confidence 0
C30_Witness ==
    /\ bt_pc = "finalized"
    /\ bt_outcome = "raised"
    /\ Len(trades) = 1
    /\ trades[1].action = BUY
    /\ trades[1].signal_confidence = 0
    /\ trades[1].ticker \in DOMAIN portfolio
    /\ trades[1].ticker \in DOMAIN closing_prices

\* C32: every signal emitted with action Buy or Sell has confidence >= 0.70,
\* in every mode and for every previous-signal map, also when the filter keeps
\* the previous action in place of the newly mapped one.
C32_ActiveSignalIsConfident ==
    Returned =>
        \A t \in DOMAIN current_signals :
            current_signals[t].action \in {BUY, SELL} =>
                current_signals[t].confidence >= 70

\* a realtime call that kept a previous Sell against a Buy mapped at 0.70
C32_Witness ==
    /\ Returned
    /\ \E t \in AnalysedTickers :
           /\ Damped(t)
           /\ PrevOf(t).action = SELL
           /\ AnalysisOf(t).signal = "strong_buy"
           /\ AnalysisOf(t).confidence = 70
           /\ current_signals[t].action = SELL
           /\ current_signals[t].confidence = 70

----------------------------------------------------------------------------
\* Claims about the trade list (checked under SpecBacktest)

\* the positions in the trade list of the trades of ticker t
TradesOf(t) == {i \in 1..Len(trades) : trades[i].ticker = t}

\* the number of trades of ticker t up to position i
RankIn(t, i) == Cardinality({j \in TradesOf(t) : j <= i})

\* C34: after any sequence of process_signal calls the trades of each ticker
\* alternate Buy, Sell, Buy, ... starting with a Buy (the odd-numbered ones
\* are Buys, the even-numbered ones Sells), and a ticker has an open lot
\* exactly when its last trade is a Buy.
C34_TradesAlternate ==
    \A t \in Tickers :
        /\ \A i \in TradesOf(t) :
               trades[i].action = IF RankIn(t, i) % 2 = 1 THEN BUY ELSE SELL
        /\ t \in DOMAIN portfolio <=>
               /\ TradesOf(t) # {}
               /\ trades[Last(TradesOf(t))].action = BUY

\* a ticker bought, sold and bought again, its lot open, next to a ticker
\* that was never traded
C34_Witness ==
    /\ bt_pc = "running"
    /\ \E t, u \in Tickers :
           /\ Cardinality(TradesOf(t)) = 3
           /\ trades[Last(TradesOf(t))].action = BUY
           /\ t \in DOMAIN portfolio
           /\ TradesOf(u) = {}
           /\ u \notin DOMAIN portfolio

\* the realized P&L of all closed lots, each as its Sell computed it
RealizedTotal == SumValues([i \in SellTrades |-> ClosedLotPnl(i)])

FloatReturned == f_pc = "returned"

\* C36: a replay with zero commission whose signals carry no price (every
\* trade is priced at the closing price) returns total_return_usd = 0,
\* unrealized_pnl = 0 and winning_trades = 0.
C36_NoPriceNoPnl ==
    (FloatReturned /\ FloatCommission = Zero) =>
        /\ f_result[1].total_return_usd = Zero
        /\ f_result[1].unrealized_pnl = Zero
        /\ f_result[1].winning_trades = 0

C36_Witness ==
    /\ FloatReturned
    /\ FloatCommission = Zero
    /\ Len(f_trades) = 2
    /\ f_trades[2].action = SELL
    /\ f_trades[1].price = f_trades[2].price
    /\ f_result[1].winning_trades = 1
    /\ Positive(f_result[1].total_return_usd)

----------------------------------------------------------------------------
\* Claims about the cycles of the pipeline (checked under SpecCycle and
\* SpecRealtime)

\* how often the latest cycle made the call e
EventCount(e) == Cardinality({i \in 1..Len(cycle_events) : cycle_events[i] = e})

\* C31: a cycle that found news (every collaborator succeeding) first persists
\* exactly one signal log entry holding the generated signal map, then updates
\* the Position map from that same map, and only then notifies.
C31_PersistThenUpdateThenNotify ==
    (cycle_mode # "none" /\ cycle_news) =>
        /\ Len(cycle_events) >= 2
        /\ cycle_events[1] = "save_signals"
        /\ cycle_events[2] = "update_positions"
        /\ EventCount("save_signals") = 1
        /\ EventCount("update_positions") = 1
        /\ saved_path # None
        /\ signal_log[saved_path[1]].signals = current_signals
        /\ signals = current_signals

C31_Witness ==
    /\ cycle_mode = "realtime"
    /\ cycle_news
    /\ cycle_analysis # <<>>
    /\ cycle_events = <<"send_error">>
    /\ signal_log = EmptyDict
    /\ positions = EmptyDict

\* the position_changed events of the latest cycle that turn Buy into Sell
\* or Sell into Buy
ReversalEvents ==
    {t \in DOMAIN changes :
        /\ changes[t].change_type = "position_changed"
        /\ IsBuySellReversal(changes[t].old_action, changes[t].new_action)}

\* C33: over realtime cycles whose previous-signal map is the latest log
\* entry and whose signals go to update_positions, every position_changed
\* event that reverses Buy and Sell has new_confidence >= 0.80, also when the
\* ticker was absent from the cycle before.
C33_ReversalEventIsConfident ==
    \A t \in ReversalEvents : changes[t].new_confidence >= HIGH_CONFIDENCE

C33_Witness ==
    /\ cycle_count = 3
    /\ Len(cycle_events) >= 2
    /\ cycle_events[2] = "update_positions"
    /\ \E t \in ReversalEvents :
           /\ changes[t].new_confidence = MIN_CONFIDENCE
           /\ (previous_signals = None \/ t \notin DOMAIN previous_signals[1])

----------------------------------------------------------------------------
\* Claims about the scheduler (checked under SpecScheduler)

\* the time of day has passed the post-market window
PostMarketWindowOver ==
    MinuteOfDay(et_now) >= POST_MARKET_TIME_ET + POST_MARKET_WINDOW_MINUTES

\* C37: with the default schedule and a pre-market callback that returns
\* normally, the loop starts the pre-market callback at most once per market
\* day and never on a Saturday or Sunday.
C37_PreMarketAtMostOncePerMarketDay ==
    pre_calls.count > 0 =>
        /\ IsMarketDay(pre_calls.date * MinutesPerDay)
        /\ ~pre_calls.raised => pre_calls.count = 1

C37_Witness ==
    /\ pre_calls = [date |-> DateOf(et_now), count |-> 1, raised |-> FALSE]
    /\ Weekday(et_now) = 0
    /\ MinuteOfDay(et_now) > MARKET_OPEN_ET
    /\ ~pre_market_done_today

\* a step of the loop that started the realtime callback
RealtimeStarted == rt_call' # rt_call

\* C38: the realtime callback starts only while the market is open; after a
\* run that returned normally no run starts before interval_minutes have
\* passed since that run started; a run whose callback raised leaves
\* last_realtime_run as it was.
C38_RealtimeOnlyOpenAndSpaced ==
    [][RealtimeStarted =>
          /\ IsMarketOpen(rt_call'[1].started)
          /\ rt_returned # None =>
                 rt_call'[1].started - rt_returned[1] >= REALTIME_INTERVAL_MINUTES
          /\ rt_call'[1].outcome = "raised" =>
                 last_realtime_run' = last_realtime_run]_vars

C38_Witness ==
    /\ rt_call # None
    /\ rt_call[1].outcome = "raised"
    /\ rt_returned # None
    /\ last_realtime_run = rt_returned
    /\ rt_call[1].started - rt_returned[1] >= REALTIME_INTERVAL_MINUTES

\* C39: with 60-second checks and callbacks that return normally the
\* post-market callback is started exactly once on every market day, the
\* first one after a weekend included: at the window of a market day the done
\* flag of the market day before has been cleared.
C39_PostMarketOncePerMarketDay ==
    /\ post_calls.count > 0 =>
           /\ IsMarketDay(post_calls.date * MinutesPerDay)
           /\ ~post_calls.raised => post_calls.count = 1
    /\ (IsMarketDay(et_now) /\ post_calls.date # DateOf(et_now)) =>
           /\ ~PostMarketWindowOver
           /\ MinuteOfDay(et_now) >= POST_MARKET_TIME_ET => ~post_market_done_today

C39_Witness ==
    /\ Weekday(et_now) = 0
    /\ PostMarketWindowOver
    /\ post_calls = [date |-> DateOf(et_now), count |-> 1, raised |-> FALSE]
    /\ post_market_done_today
====
